---- MODULE Spec2Model ----
(***************************************************************************)
(* Pengawas-Pintar: the admin-side connection registry                     *)
(* (shared/networking/server.py), the registration / heartbeat /           *)
(* violation handlers of the admin application (admin_app/app.py) and the  *)
(* persistence operations they call (shared/database/database_manager.py). *)
(*                                                                         *)
(* Granularity.  The server runs one asyncio task per websocket; tasks     *)
(* interleave only at `await`.  An action below is the code of one task    *)
(* between two suspension points (receive_text, send_text).  Operator      *)
(* (GUI thread) operations are interleaved at the same points.             *)
(***************************************************************************)
EXTENDS Integers, Sequences, FiniteSets, TLC

(* ------------------------------ bounds -------------------------------- *)
MaxConn == 2          \* websocket handles that can be open at once
MaxSessions == 2      \* exam sessions the operator starts
MaxViolations == 15   \* violation rows created
MaxReports == 6       \* violation reports in the escalation specification
MaxTime == 2          \* ticks of the clock (datetime.utcnow)
MaxMsgs == 2          \* messages the operator sends or broadcasts
MaxPerm == 2          \* permission requests in the table
MaxEvents == 1        \* detection cycles of the client that find a violation
MaxKeys == 2          \* entries of a message payload

Handles == 1..MaxConn
OpThread == 0                         \* the GUI thread as a caller of send
PIDs == {"P1", "P2", "PX"}            \* ids a client may put in /ws/{id}
RosterPIDs == {"P1", "P2"}            \* ids the operator adds to the roster
NoSession == 0                        \* current_session_id = None
Durations == { 1 }                    \* duration_minutes of a permission request
NoTime == -1                          \* a DateTime that is None (NULL in a column)
ClientPid == "P1"                     \* the id the participant application connects with

(* ------------------------------ strings ------------------------------- *)
\* A string is a sequence of one-character strings.
LowerCh(c) == CASE c = "A" -> "a" [] c = "B" -> "b" [] OTHER -> c

lower(s) == [i \in 1..Len(s) |-> LowerCh(s[i])]

RECURSIVE lstrip(_)
lstrip(s) == IF s # <<>> /\ Head(s) = " " THEN lstrip(Tail(s)) ELSE s

RECURSIVE rstrip(_)
rstrip(s) == IF s # <<>> /\ s[Len(s)] = " " THEN rstrip(SubSeq(s, 1, Len(s) - 1)) ELSE s

strip(s) == rstrip(lstrip(s))

RosterNames == { <<"A", "b">> }
NameInputs == { <<"A", "b">>, <<"a", "B">>, <<" ", "a", "B">>, <<"B", "a">> }
HostIPs == { "10.0.0.7" }
HostNames == { "LAB-PC" }

(* ------------------------------ protocol ------------------------------ *)
MessageType == { "register", "heartbeat", "violation_report", "permission_request",
                 "status_update", "register_ack", "config_update", "warning", "lock",
                 "unlock", "permission_response", "emergency_lock", "ping", "pong" }

Message(t, d, pid) == [type |-> t, data |-> d, participant_id |-> pid]

\* the number the model gives an operator message to tell it from the others
MsgId(m) == IF "id" \in DOMAIN m.data THEN m.data.id ELSE 0

ViolationType == { "application_blocked", "process_termination_attempt", "face_absence",
                   "multiple_faces", "suspicious_movement", "voice_activity",
                   "multiple_speakers", "screen_switch", "shortcut_blocked",
                   "unauthorized_website" }

ViolationSeverity == { "low", "medium", "high", "critical" }

(* --------------------------- protocol codec --------------------------- *)
\* Python values of a payload: str, int, bool and None, each with its repr.
\* A dict is a sequence of [key, value] entries in insertion order.
PyStr(s) == [py |-> "str", v |-> s]
PyInt(n) == [py |-> "int", v |-> n]
PyBool(b) == [py |-> "bool", v |-> IF b THEN "True" ELSE "False"]
PyNone == [py |-> "NoneType", v |-> "None"]
PyDict(entries) == [py |-> "dict", v |-> entries]

\* the members of MessageType and their values
MessageTypeNames == { "REGISTER", "HEARTBEAT", "VIOLATION_REPORT", "PERMISSION_REQUEST",
                      "STATUS_UPDATE", "REGISTER_ACK", "CONFIG_UPDATE", "WARNING", "LOCK",
                      "UNLOCK", "PERMISSION_RESPONSE", "EMERGENCY_LOCK", "PING", "PONG" }

\* MessageType.X.value
MessageTypeValue(name) ==
    CASE name = "REGISTER" -> "register"
      [] name = "HEARTBEAT" -> "heartbeat"
      [] name = "VIOLATION_REPORT" -> "violation_report"
      [] name = "PERMISSION_REQUEST" -> "permission_request"
      [] name = "STATUS_UPDATE" -> "status_update"
      [] name = "REGISTER_ACK" -> "register_ack"
      [] name = "CONFIG_UPDATE" -> "config_update"
      [] name = "WARNING" -> "warning"
      [] name = "LOCK" -> "lock"
      [] name = "UNLOCK" -> "unlock"
      [] name = "PERMISSION_RESPONSE" -> "permission_response"
      [] name = "EMERGENCY_LOCK" -> "emergency_lock"
      [] name = "PING" -> "ping"
      [] name = "PONG" -> "pong"

\* MessageType(value): the member with that value, or ValueError
MessageTypeOf(value) ==
    IF \E n \in MessageTypeNames : MessageTypeValue(n) = value
    THEN [exc |-> "none", member |-> CHOOSE n \in MessageTypeNames : MessageTypeValue(n) = value]
    ELSE [exc |-> "ValueError", member |-> "None"]

\* datetime.isoformat() and datetime.fromisoformat() on the instants of the
\* model's clock
TimestampText(t) ==
    CASE t = 0 -> "2024-01-01T08:00:00"
      [] t = 1 -> "2024-01-01T08:01:00"
      [] t = 2 -> "2024-01-01T08:02:00"
      [] OTHER -> "2024-01-01T08:03:00"

TimestampOf(text) ==
    IF \E t \in 0..3 : TimestampText(t) = text
    THEN [exc |-> "none", t |-> CHOOSE t \in 0..3 : TimestampText(t) = text]
    ELSE [exc |-> "ValueError", t |-> NoTime]

\* dict.get(key, default) and `key in dict`
In(entries, key) == \E i \in 1..Len(entries) : entries[i].key = key
dict_get(entries, key, default) ==
    IF In(entries, key)
    THEN entries[CHOOSE i \in 1..Len(entries) : entries[i].key = key].value
    ELSE default

\* dict[key] = value: an existing key keeps its place
dict_set(entries, key, value) ==
    IF In(entries, key)
    THEN [i \in 1..Len(entries) |->
             IF entries[i].key = key THEN [key |-> key, value |-> value] ELSE entries[i]]
    ELSE Append(entries, [key |-> key, value |-> value])

\* bool(x) is False
Falsy(x) ==
    CASE x.py = "NoneType" -> TRUE
      [] x.py = "dict" -> x.v = << >>
      [] x.py = "str" -> x.v = ""
      [] x.py = "int" -> x.v = "0"
      [] x.py = "bool" -> x.v = "False"

\* Message.__init__: `data or {}`
PyMessage(msg_type, data, participant_id, timestamp) ==
    [type |-> msg_type,
     data |-> IF Falsy(data) THEN PyDict(<< >>) ELSE data,
     participant_id |-> participant_id,
     timestamp |-> timestamp]

\* Message.to_dict
to_dict(m) ==
    PyDict(<< [key |-> "type", value |-> PyStr(MessageTypeValue(m.type))],
              [key |-> "data", value |-> m.data],
              [key |-> "participant_id", value |-> m.participant_id],
              [key |-> "timestamp", value |-> PyStr(TimestampText(m.timestamp))] >>)

\* JSON text is a sequence of tokens
Tok(k, v) == [k |-> k, v |-> v]
LBrace == Tok("punct", "{")
RBrace == Tok("punct", "}")
Colon == Tok("punct", ":")
Comma == Tok("punct", ",")

\* json.dumps of a str, int, bool or None
dumps_scalar(x) ==
    CASE x.py = "str" -> Tok("string", x.v)
      [] x.py = "int" -> Tok("number", x.v)
      [] x.py = "bool" -> Tok("literal", IF x.v = "True" THEN "true" ELSE "false")
      [] x.py = "NoneType" -> Tok("literal", "null")

\* json.dumps
RECURSIVE dumps(_)
RECURSIVE dumps_members(_)
dumps_members(entries) ==
    IF entries = << >> THEN << >>
    ELSE << Tok("string", entries[1].key), Colon >> \o dumps(entries[1].value)
         \o (IF Len(entries) > 1 THEN << Comma >> ELSE << >>)
         \o dumps_members(Tail(entries))

dumps(x) ==
    IF x.py = "dict" THEN << LBrace >> \o dumps_members(x.v) \o << RBrace >>
    ELSE << dumps_scalar(x) >>

\* json.loads: the value at the head of the tokens and the tokens after it,
\* or JSONDecodeError
ParseFail == [ok |-> FALSE, val |-> PyNone, rest |-> << >>]

RECURSIVE parse_value(_)
RECURSIVE parse_members(_, _)
parse_members(toks, acc) ==
    IF Len(toks) < 3 \/ toks[1].k # "string" \/ toks[2] # Colon THEN ParseFail
    ELSE LET r == parse_value(SubSeq(toks, 3, Len(toks)))
         IN IF ~r.ok \/ r.rest = << >> THEN ParseFail
            ELSE LET acc1 == dict_set(acc, toks[1].v, r.val)
                 IN IF Head(r.rest) = RBrace
                    THEN [ok |-> TRUE, val |-> PyDict(acc1), rest |-> Tail(r.rest)]
                    ELSE IF Head(r.rest) = Comma THEN parse_members(Tail(r.rest), acc1)
                    ELSE ParseFail

parse_value(toks) ==
    IF toks = << >> THEN ParseFail
    ELSE LET t == Head(toks)
         IN CASE t.k = "string" -> [ok |-> TRUE, val |-> PyStr(t.v), rest |-> Tail(toks)]
              [] t.k = "number" -> [ok |-> TRUE, val |-> PyInt(t.v), rest |-> Tail(toks)]
              [] t.k = "literal" ->
                     [ok |-> TRUE,
                      val |-> IF t.v = "null" THEN PyNone ELSE PyBool(t.v = "true"),
                      rest |-> Tail(toks)]
              [] t = LBrace ->
                     IF Len(toks) >= 2 /\ toks[2] = RBrace
                     THEN [ok |-> TRUE, val |-> PyDict(<< >>), rest |-> SubSeq(toks, 3, Len(toks))]
                     ELSE parse_members(Tail(toks), << >>)
              [] OTHER -> ParseFail

loads(text) ==
    LET r == parse_value(text)
    IN IF r.ok /\ r.rest = << >> THEN [exc |-> "none", val |-> r.val]
       ELSE [exc |-> "JSONDecodeError", val |-> PyNone]

NoMessage == [type |-> "None", data |-> PyNone, participant_id |-> PyNone, timestamp |-> NoTime]

\* from_dict that passes no participant_id to the constructor
from_dict_no_participant(d, t) ==
    IF d.py # "dict" THEN [exc |-> "AttributeError", m |-> NoMessage]
    ELSE IF ~In(d.v, "type") THEN [exc |-> "KeyError", m |-> NoMessage]
    ELSE LET ty == dict_get(d.v, "type", PyNone)
             mt == IF ty.py = "str" THEN MessageTypeOf(ty.v)
                   ELSE [exc |-> "ValueError", member |-> "None"]
             ts == dict_get(d.v, "timestamp", PyStr(TimestampText(t)))
             tm == IF ts.py = "str" THEN TimestampOf(ts.v) ELSE [exc |-> "TypeError", t |-> NoTime]
         IN IF mt.exc # "none" THEN [exc |-> mt.exc, m |-> NoMessage]
            ELSE IF tm.exc # "none" THEN [exc |-> tm.exc, m |-> NoMessage]
            ELSE [exc |-> "none",
                  m |-> PyMessage(mt.member, dict_get(d.v, "data", PyDict(<< >>)),
                                  PyNone, tm.t)]

\* Message.from_dict at time t: data['type'] (KeyError), MessageType(...)
\* (ValueError), data.get('data', {}), data.get('participant_id'),
\* datetime.fromisoformat(data.get('timestamp', now))
from_dict(d, t) ==
    IF d.py # "dict" THEN [exc |-> "AttributeError", m |-> NoMessage]
    ELSE IF ~In(d.v, "type") THEN [exc |-> "KeyError", m |-> NoMessage]
    ELSE LET ty == dict_get(d.v, "type", PyNone)
             mt == IF ty.py = "str" THEN MessageTypeOf(ty.v)
                   ELSE [exc |-> "ValueError", member |-> "None"]
             ts == dict_get(d.v, "timestamp", PyStr(TimestampText(t)))
             tm == IF ts.py = "str" THEN TimestampOf(ts.v) ELSE [exc |-> "TypeError", t |-> NoTime]
         IN IF mt.exc # "none" THEN [exc |-> mt.exc, m |-> NoMessage]
            ELSE IF tm.exc # "none" THEN [exc |-> tm.exc, m |-> NoMessage]
            ELSE [exc |-> "none",
                  m |-> PyMessage(mt.member, dict_get(d.v, "data", PyDict(<< >>)),
                                  dict_get(d.v, "participant_id", PyNone), tm.t)]

\* Message.to_json
to_json(m) == dumps(to_dict(m))

\* Message.from_json
from_json(text, t) ==
    LET l == loads(text)
    IN IF l.exc # "none" THEN [exc |-> l.exc, m |-> NoMessage] ELSE from_dict(l.val, t)

(* ------------------------------- state -------------------------------- *)
VARIABLES
    connected_clients,   \* ProctoringServer.connected_clients: participant_id -> handle
    conn,                \* per handle: the websocket_endpoint task serving it
    writes,              \* transport writes in flight: caller -> [pid, h, msg]
    op,                  \* what the GUI thread is doing (idle, or inside a broadcast)
    participants,        \* table participants: participant_id -> row
    violations,          \* table violations
    exam_sessions,       \* table exam_sessions: id -> status
    permission_requests, \* table permission_requests: id -> row
    client,              \* the participant application of ClientPid
    wire,                \* handle -> messages the client has sent on it, not yet read
    inbox,               \* messages written to the client's websocket, not yet read
    current_session_id,  \* AdminApp.current_session_id
    ai_proctor_mode,     \* AdminApp.ai_proctor_mode
    now,                 \* datetime.utcnow()
    nmsgs,               \* messages the operator has sent so far
    lost,                \* ids of operator messages whose send found no handle
    last                 \* what the most recent step did (history)

vars == << connected_clients, conn, writes, op, participants, violations, exam_sessions,
           permission_requests, client, wire, inbox, current_session_id, ai_proctor_mode,
           now, nmsgs, lost, last >>

dbvars == << participants, violations, exam_sessions, permission_requests >>
appvars == << current_session_id, ai_proctor_mode >>
clivars == << client, wire, inbox >>

Idle == [kind |-> "idle"]
Nothing == [op |-> "none"]

\* ProctoringClient.__init__ and ParticipantApp.__init__: the registration
\* dialog is shown; not connected, no websocket, no permission
ClientInit == [pc |-> "dialog", ws |-> 0, is_connected |-> FALSE,
               running |-> FALSE,    \* ProctoringClient.running
               closing |-> FALSE,    \* a disconnect() task is scheduled
               timers |-> {},        \* times at which a pending single-shot timer fires
               permission_active |-> FALSE, permission_expires_at |-> NoTime,
               waiting |-> FALSE,    \* the permission button is disabled
               is_locked |-> FALSE,
               events |-> 0]         \* detection cycles that found a violation

Init ==
    /\ connected_clients = << >>
    /\ conn = [h \in Handles |-> [pid |-> "", pc |-> "free"]]
    /\ writes = << >>
    /\ op = Idle
    /\ participants = << >>
    /\ violations = << >>
    /\ exam_sessions = << >>
    /\ permission_requests = << >>
    /\ client = ClientInit
    /\ wire = [h \in Handles |-> << >>]
    /\ inbox = << >>
    /\ current_session_id = NoSession
    /\ ai_proctor_mode = FALSE
    /\ now = 0
    /\ nmsgs = 0
    /\ lost = {}
    /\ last = Nothing

(* ------------------------- connection registry ------------------------ *)
\* connected_clients is a Python dict: a sequence of entries in insertion
\* order.  Assigning an existing key keeps its place; a deleted key that is
\* assigned again goes to the end.
Keys(cc) == [i \in 1..Len(cc) |-> cc[i].pid]
Has(cc, pid) == \E i \in 1..Len(cc) : cc[i].pid = pid
Get(cc, pid) == cc[CHOOSE i \in 1..Len(cc) : cc[i].pid = pid].h
KeySet(cc) == { cc[i].pid : i \in 1..Len(cc) }

RECURSIVE Del(_, _)
Del(cc, pid) ==
    IF cc = << >> THEN << >>
    ELSE IF Head(cc).pid = pid THEN Tail(cc)
    ELSE << Head(cc) >> \o Del(Tail(cc), pid)

Put(cc, pid, h) ==
    IF Has(cc, pid)
    THEN [i \in 1..Len(cc) |-> IF cc[i].pid = pid THEN [pid |-> pid, h |-> h] ELSE cc[i]]
    ELSE Append(cc, [pid |-> pid, h |-> h])

\* ProctoringServer._disconnect_client: the entry is removed by id, whatever
\* handle it holds.  client_info stays empty in the admin application (its
\* only writer, the default _handle_register, is overridden), so the second
\* half of the method does nothing.
_disconnect_client(cc, pid) == IF Has(cc, pid) THEN Del(cc, pid) ELSE cc

\* a handle can be given to a new connection when no task serves it and no
\* write still holds a reference to it
Referenced(h) == \E c \in DOMAIN writes : writes[c].h = h

\* is the entry of pid held by a connection other than h
Superseded(cc, pid, h) == Has(cc, pid) /\ Get(cc, pid) # h
EntryOf(cc, pid) == IF Has(cc, pid) THEN Get(cc, pid) ELSE 0

\* handles are interchangeable: a new connection gets the lowest one that is
\* available
Available(h) == conn[h].pc = "free" /\ ~Referenced(h)

\* the server reads the next message of handle h; the read loop of h ends
Consume(w, h) == [w EXCEPT ![h] = IF @ = << >> THEN @ ELSE Tail(@)]
Closed(w, h) == [w EXCEPT ![h] = << >>]

\* a completed write on handle wr.h reaches the client when that handle is
\* the websocket the client holds open
Deliver(box, wr, ok) ==
    IF ok /\ client.ws = wr.h /\ client.pc # "sleep" THEN Append(box, wr.msg) ELSE box

\* websocket_endpoint up to the first receive_text: accept, then install
AcceptConnection(h, pid) ==
    /\ Available(h)
    /\ \A g \in Handles : Available(g) => h <= g
    /\ conn' = [conn EXCEPT ![h] = [pid |-> pid, pc |-> "recv"]]
    /\ connected_clients' = Put(connected_clients, pid, h)
    /\ last' = [op |-> "accept", pid |-> pid, h |-> h]
    /\ UNCHANGED << writes, op, dbvars, appvars, now, nmsgs, lost >>

\* a connection whose client program is not part of the state
Accept(h, pid) == AcceptConnection(h, pid) /\ UNCHANGED clivars

\* the task of handle h leaves the read loop through one of the two except
\* clauses: both call _disconnect_client(participant_id) and return
EndTask(h, why) ==
    /\ conn' = [conn EXCEPT ![h] = [pid |-> "", pc |-> "free"]]
    /\ connected_clients' = _disconnect_client(connected_clients, conn[h].pid)
    /\ last' = [op |-> "end", pid |-> conn[h].pid, h |-> h, why |-> why,
                superseded |-> Superseded(connected_clients, conn[h].pid, h),
                newh |-> EntryOf(connected_clients, conn[h].pid)]

\* receive_text raises WebSocketDisconnect
ReadFail(h) ==
    /\ conn[h].pc = "recv"
    /\ EndTask(h, "WebSocketDisconnect")
    /\ wire' = Closed(wire, h) /\ UNCHANGED << client, inbox >>
    /\ UNCHANGED << writes, op, dbvars, appvars, now, nmsgs, lost >>

\* a protocol error that empties the registry
RecvMalformed_all_removed(h, t) ==
    /\ conn[h].pc = "recv"
    /\ MessageTypeOf(t).exc = "ValueError"
    /\ conn' = [conn EXCEPT ![h] = [pid |-> "", pc |-> "free"]]
    /\ connected_clients' = << >>
    /\ last' = [op |-> "end", pid |-> conn[h].pid, h |-> h, why |-> "ProtocolError",
                superseded |-> Superseded(connected_clients, conn[h].pid, h),
                newh |-> EntryOf(connected_clients, conn[h].pid)]
    /\ wire' = Closed(wire, h) /\ UNCHANGED << client, inbox >>
    /\ UNCHANGED << writes, op, dbvars, appvars, now, nmsgs, lost >>

\* Message.from_json raises: MessageType(data['type']) on a value outside the
\* enumeration (ValueError), or json.loads on malformed text
RecvMalformed(h, t) ==
    /\ conn[h].pc = "recv"
    /\ MessageTypeOf(t).exc = "ValueError"
    /\ EndTask(h, "ProtocolError")
    /\ wire' = Closed(wire, h) /\ UNCHANGED << client, inbox >>
    /\ UNCHANGED << writes, op, dbvars, appvars, now, nmsgs, lost >>

(* ------------------------------- send --------------------------------- *)
\* in-flight writes: a function caller -> [pid, h, msg]
WPut(w, c, v) == [x \in DOMAIN w \cup {c} |-> IF x = c THEN v ELSE w[x]]
WDel(w, c) == [x \in DOMAIN w \ {c} |-> w[x]]

\* send_message that keeps a message for an absent participant and writes it
\* to the first handle
send_begin_keep(cc, w, caller, pid, msg) ==
    IF Has(cc, pid)
    THEN WPut(w, caller, [pid |-> pid, h |-> Get(cc, pid), msg |-> msg])
    ELSE WPut(w, caller, [pid |-> pid, h |-> 1, msg |-> msg])

\* send_message up to `await websocket.send_text`: without an entry it
\* returns False at once; with one, the handle is looked up and the write
\* starts
send_begin(cc, w, caller, pid, msg) ==
    IF Has(cc, pid)
    THEN WPut(w, caller, [pid |-> pid, h |-> Get(cc, pid), msg |-> msg])
    ELSE w

\* send_message whose except clause only returns False
send_end_no_disconnect(cc, wr, ok) == cc

\* send_message after the await: True, or the except clause
send_end(cc, wr, ok) == IF ok THEN cc ELSE _disconnect_client(cc, wr.pid)

\* a write on a handle whose task has returned (the socket is closed) fails;
\* on an open socket it may succeed or fail
MayWrite(wr, ok) == conn[wr.h].pc = "free" => ~ok

WriteRecord(caller, wr, ok) ==
    [op |-> "write", caller |-> caller, pid |-> wr.pid, h |-> wr.h, msg |-> wr.msg,
     result |-> ok, before |-> connected_clients,
     superseded |-> ~ok /\ Superseded(connected_clients, wr.pid, wr.h),
     newh |-> EntryOf(connected_clients, wr.pid)]

\* the GUI thread calls send_message(participant_id, message) through
\* loop.run_until_complete (no loop is running in that thread)
OpSend(pid, t) ==
    /\ op = Idle
    /\ nmsgs < MaxMsgs
    /\ LET msg == Message(t, [id |-> nmsgs + 1], pid)
           found == Has(connected_clients, pid)
       IN /\ writes' = send_begin(connected_clients, writes, OpThread, pid, msg)
          /\ op' = IF found THEN [kind |-> "send"] ELSE Idle
          /\ lost' = IF found THEN lost ELSE lost \cup {[id |-> nmsgs + 1, pid |-> pid]}
          /\ last' = [op |-> "send", pid |-> pid, msg |-> msg, found |-> found,
                      result |-> FALSE, returned |-> ~found,
                      before |-> connected_clients, db |-> dbvars]
    /\ nmsgs' = nmsgs + 1
    /\ UNCHANGED clivars
    /\ UNCHANGED << connected_clients, conn, dbvars, appvars, now >>

OpSendEnd(ok) ==
    /\ op = [kind |-> "send"]
    /\ OpThread \in DOMAIN writes
    /\ MayWrite(writes[OpThread], ok)
    /\ connected_clients' = send_end(connected_clients, writes[OpThread], ok)
    /\ writes' = WDel(writes, OpThread)
    /\ op' = Idle
    /\ last' = WriteRecord(OpThread, writes[OpThread], ok)
    /\ inbox' = Deliver(inbox, writes[OpThread], ok) /\ UNCHANGED << client, wire >>
    /\ UNCHANGED << conn, dbvars, appvars, now, nmsgs, lost >>

(* ----------------------------- broadcast ------------------------------ *)
\* broadcast_message without the `not in exclude` test
RECURSIVE broadcast_loop_no_exclude(_, _, _, _)
broadcast_loop_no_exclude(todo, exclude, cc, res) ==
    IF todo = << >> THEN [done |-> TRUE, todo |-> << >>, res |-> res]
    ELSE IF ~Has(cc, Head(todo))
         THEN broadcast_loop_no_exclude(Tail(todo), exclude, cc,
                             Append(res, [pid |-> Head(todo), h |-> 0, out |-> "nohandle"]))
    ELSE [done |-> FALSE, todo |-> todo, res |-> res]

\* the for loop of broadcast_message from its current position up to the
\* next `await websocket.send_text` (done = FALSE: Head(todo) is the id being
\* written) or to its end.  A send_message that finds no entry returns False
\* without suspending.
RECURSIVE broadcast_loop(_, _, _, _)
broadcast_loop(todo, exclude, cc, res) ==
    IF todo = << >> THEN [done |-> TRUE, todo |-> << >>, res |-> res]
    ELSE IF Head(todo) \in exclude THEN broadcast_loop(Tail(todo), exclude, cc, res)
    ELSE IF ~Has(cc, Head(todo))
         THEN broadcast_loop(Tail(todo), exclude, cc,
                             Append(res, [pid |-> Head(todo), h |-> 0, out |-> "nohandle"]))
    ELSE [done |-> FALSE, todo |-> todo, res |-> res]

BroadcastRecord(o, res) ==
    [op |-> "broadcast", msg |-> o.msg, exclude |-> o.exclude, snap |-> o.snap, res |-> res]

BroadcastGo(o, cc, todo, res) ==
    LET r == broadcast_loop(todo, o.exclude, cc, res)
    IN IF r.done
       THEN /\ op' = Idle
            /\ writes' = WDel(writes, OpThread)
            /\ last' = BroadcastRecord(o, r.res)
       ELSE /\ op' = [o EXCEPT !.todo = Tail(r.todo), !.res = r.res]
            /\ writes' = send_begin(cc, WDel(writes, OpThread), OpThread, Head(r.todo), o.msg)
            /\ last' = [op |-> "broadcasting", pid |-> Head(r.todo)]

\* broadcast_message(message, exclude) called from the GUI thread
\* (_emergency_lock, _save_config): snapshot of the keys, then the loop
OpBroadcast(t, exclude) ==
    /\ op = Idle
    /\ nmsgs < MaxMsgs
    /\ LET o == [kind |-> "bcast", msg |-> Message(t, [id |-> nmsgs + 1], "None"),
                 exclude |-> exclude, snap |-> Keys(connected_clients),
                 todo |-> << >>, res |-> << >>]
       IN BroadcastGo(o, connected_clients, Keys(connected_clients), << >>)
    /\ nmsgs' = nmsgs + 1
    /\ UNCHANGED clivars
    /\ UNCHANGED << connected_clients, conn, dbvars, appvars, now, lost >>

\* the write of the broadcast's current recipient returns or raises
BroadcastStep(ok) ==
    /\ op.kind = "bcast"
    /\ OpThread \in DOMAIN writes
    /\ MayWrite(writes[OpThread], ok)
    /\ LET wr == writes[OpThread]
           cc1 == send_end(connected_clients, wr, ok)
           res1 == Append(op.res, [pid |-> wr.pid, h |-> wr.h, out |-> IF ok THEN "ok" ELSE "fail"])
       IN /\ connected_clients' = cc1
          /\ BroadcastGo(op, cc1, op.todo, res1)
    /\ inbox' = Deliver(inbox, writes[OpThread], ok) /\ UNCHANGED << client, wire >>
    /\ UNCHANGED << conn, dbvars, appvars, now, nmsgs, lost >>

(* ---------------------------- persistence ----------------------------- *)
Max(a, b) == IF a >= b THEN a ELSE b

\* DatabaseManager.register_participant with the column defaults of
\* models.Participant
register_participant(P, pid, name, sid, t) ==
    [x \in DOMAIN P \cup {pid} |->
        IF x = pid
        THEN [name |-> name, exam_session_id |-> sid, computer_ip |-> "None",
              computer_name |-> "None", last_heartbeat |-> t, is_active |-> TRUE,
              integrity_score |-> 100, warning_count |-> 0, violation_count |-> 0,
              is_locked |-> FALSE]
        ELSE P[x]]

\* update_participant_heartbeat that marks the row active without writing
\* last_heartbeat
update_participant_heartbeat_no_time(P, pid, t) ==
    IF pid \in DOMAIN P
    THEN [P EXCEPT ![pid].is_active = TRUE]
    ELSE P

\* DatabaseManager.update_participant_heartbeat
update_participant_heartbeat(P, pid, t) ==
    IF pid \in DOMAIN P
    THEN [P EXCEPT ![pid].last_heartbeat = t, ![pid].is_active = TRUE]
    ELSE P

increment_warning_count(P, pid) ==
    IF pid \in DOMAIN P THEN [P EXCEPT ![pid].warning_count = @ + 1] ELSE P

\* lock_participant that flips the column
lock_participant_flip(P, pid, locked) ==
    IF pid \in DOMAIN P THEN [P EXCEPT ![pid].is_locked = ~@] ELSE P

\* DatabaseManager.lock_participant
lock_participant(P, pid, locked) ==
    IF pid \in DOMAIN P THEN [P EXCEPT ![pid].is_locked = locked] ELSE P

\* create_violation that adds the row and leaves the counter
create_violation_no_count(P, V, pid, sid, vt, sev) ==
    IF pid \notin DOMAIN P
    THEN [exc |-> "ValueError", P |-> P, V |-> V]
    ELSE [exc |-> "none",
          P |-> P,
          V |-> Append(V, [participant_id |-> pid, exam_session_id |-> sid,
                           violation_type |-> vt, severity |-> sev])]

\* one transaction: the row and the counter, or ValueError and nothing
create_violation(P, V, pid, sid, vt, sev) ==
    IF pid \notin DOMAIN P
    THEN [exc |-> "ValueError", P |-> P, V |-> V]
    ELSE [exc |-> "none",
          P |-> [P EXCEPT ![pid].violation_count = @ + 1],
          V |-> Append(V, [participant_id |-> pid, exam_session_id |-> sid,
                           violation_type |-> vt, severity |-> sev])]

\* the score with the two penalties exchanged
_update_integrity_score_swapped(P, pid) ==
    IF pid \notin DOMAIN P THEN P
    ELSE [P EXCEPT ![pid].integrity_score =
              Max(0, 100 - P[pid].violation_count * 2 - P[pid].warning_count * 5)]

\* the score without max(0.0, ...)
_update_integrity_score_unclamped(P, pid) ==
    IF pid \notin DOMAIN P THEN P
    ELSE [P EXCEPT ![pid].integrity_score =
              100 - P[pid].violation_count * 5 - P[pid].warning_count * 2]

\* AdminApp._update_integrity_score: base 100.0, 5.0 per violation, 2.0 per
\* warning, max(0.0, ...).  The operands are whole numbers, so the floating
\* point result is exact.
_update_integrity_score(P, pid) ==
    IF pid \notin DOMAIN P THEN P
    ELSE [P EXCEPT ![pid].integrity_score =
              Max(0, 100 - P[pid].violation_count * 5 - P[pid].warning_count * 2)]

\* models.PermissionStatus: the members by name, and the value of each
PermissionStatus == { "PENDING", "APPROVED", "REJECTED", "EXPIRED" }
StatusValue(name) ==
    CASE name = "PENDING" -> "pending" [] name = "APPROVED" -> "approved"
      [] name = "REJECTED" -> "rejected" [] name = "EXPIRED" -> "expired"

\* what Python assigns to PermissionRequest.status: a member of the enum, or a str
Member(name) == [kind |-> "member", name |-> name]
Str(text) == [kind |-> "str", text |-> text]

\* Column(Enum(PermissionStatus)), models.py line 135, on the way to the
\* database: a member is stored by its NAME; a str that is not a name is
\* stored as it is (strings are not validated)
enum_bind(v) == IF v.kind = "member" THEN v.name ELSE v.text

\* ... and on the way back: the stored text is looked up among the names of
\* the members; any other text raises LookupError
enum_result(text) ==
    IF text \in PermissionStatus THEN [exc |-> "none", name |-> text]
    ELSE [exc |-> "LookupError", name |-> ""]

Unbound == [bound |-> FALSE, id |-> 0, expires_at |-> NoTime]

\* DatabaseManager.create_permission_request: the row is written with the str
\* 'pending', flushed, and read back by session.refresh; an exception leaves
\* the with-block before the commit, so nothing is stored
create_permission_request(P, R, pid, duration_minutes) ==
    IF pid \notin DOMAIN P THEN [exc |-> "ValueError", R |-> R, request |-> Unbound]
    ELSE LET row == [participant_id |-> pid, status |-> enum_bind(Str("pending")),
                     approved_at |-> NoTime, expires_at |-> NoTime,
                     duration_minutes |-> duration_minutes]
             back == enum_result(row.status)
         IN IF back.exc # "none" THEN [exc |-> back.exc, R |-> R, request |-> Unbound]
            ELSE [exc |-> "none", R |-> Append(R, row),
                  request |-> [bound |-> TRUE, id |-> Len(R) + 1, expires_at |-> row.expires_at]]

\* approve_permission_request without the test of the status
approve_permission_request_any_status(R, id, t1, t2) ==
    IF id \notin 1..Len(R) THEN [exc |-> "none", ret |-> FALSE, R |-> R]
    ELSE LET st == enum_result(R[id].status)
         IN IF st.exc # "none" THEN [exc |-> st.exc, ret |-> FALSE, R |-> R]
            ELSE [exc |-> "none", ret |-> TRUE,
                  R |-> [R EXCEPT ![id].status = enum_bind(Str("approved")),
                                  ![id].approved_at = t1,
                                  ![id].expires_at = t2 + R[id].duration_minutes]]

\* DatabaseManager.approve_permission_request.  Loading the row converts the
\* stored status; t1 and t2 are the two reads of datetime.utcnow()
approve_permission_request(R, id, t1, t2) ==
    IF id \notin 1..Len(R) THEN [exc |-> "none", ret |-> FALSE, R |-> R]
    ELSE LET st == enum_result(R[id].status)
         IN IF st.exc # "none" THEN [exc |-> st.exc, ret |-> FALSE, R |-> R]
            ELSE IF StatusValue(st.name) = "pending"
            THEN [exc |-> "none", ret |-> TRUE,
                  R |-> [R EXCEPT ![id].status = enum_bind(Str("approved")),
                                  ![id].approved_at = t1,
                                  ![id].expires_at = t2 + R[id].duration_minutes]]
            ELSE [exc |-> "none", ret |-> FALSE, R |-> R]

\* DatabaseManager.get_active_permission: the rows are selected in SQL on the
\* stored text (a NULL expires_at compares as not greater), and the first of
\* them is loaded.  id = 0 is the result None.
get_active_permission(P, R, pid, t) ==
    IF pid \notin DOMAIN P THEN [exc |-> "none", id |-> 0]
    ELSE LET hits == { i \in 1..Len(R) : /\ R[i].participant_id = pid
                                         /\ R[i].status = enum_bind(Str("approved"))
                                         /\ R[i].expires_at # NoTime
                                         /\ R[i].expires_at > t }
         IN IF hits = {} THEN [exc |-> "none", id |-> 0]
            ELSE LET i == CHOOSE j \in hits : \A k \in hits : j <= k
                     st == enum_result(R[i].status)
                 IN IF st.exc # "none" THEN [exc |-> st.exc, id |-> 0]
                    ELSE [exc |-> "none", id |-> i]

(* --------------------------- admin handlers --------------------------- *)
warnings_before_flag == 3
warnings_before_lock == 5

\* _handle_register_async without the roster check
register_ack_no_roster(P, csid, pid, rawname) ==
    LET name == strip(rawname)
    IN IF pid \notin DOMAIN P
       THEN [status |-> "registered", participant_id |-> pid, exam_session_id |-> csid]
       ELSE IF lower(P[pid].name) # lower(name)
       THEN [status |-> "rejected",
             message |-> << "Nama tidak sesuai. Nama yang terdaftar: ", P[pid].name >>]
       ELSE IF csid = NoSession \/ P[pid].exam_session_id # csid
       THEN [status |-> "rejected",
             message |-> << "Sesi ujian tidak aktif atau tidak sesuai." >>]
       ELSE [status |-> "registered", participant_id |-> pid, exam_session_id |-> csid]

\* _handle_register_async with the session check before the name check
register_ack_session_first(P, csid, pid, rawname) ==
    LET name == strip(rawname)
    IN IF pid \notin DOMAIN P
       THEN [status |-> "rejected",
             message |-> << "ID Peserta ", pid, " tidak terdaftar. Silakan hubungi pengawas." >>]
       ELSE IF csid = NoSession \/ P[pid].exam_session_id # csid
       THEN [status |-> "rejected",
             message |-> << "Sesi ujian tidak aktif atau tidak sesuai." >>]
       ELSE IF lower(P[pid].name) # lower(name)
       THEN [status |-> "rejected",
             message |-> << "Nama tidak sesuai. Nama yang terdaftar: ", P[pid].name >>]
       ELSE [status |-> "registered", participant_id |-> pid, exam_session_id |-> csid]

\* AdminApp._handle_register_async, lines 378-421 and 434-442: the data of the
\* REGISTER_ACK.  The checks run in this order and the first that fails
\* answers.
register_ack(P, csid, pid, rawname) ==
    LET name == strip(rawname)
    IN IF pid \notin DOMAIN P
       THEN [status |-> "rejected",
             message |-> << "ID Peserta ", pid, " tidak terdaftar. Silakan hubungi pengawas." >>]
       ELSE IF lower(P[pid].name) # lower(name)
       THEN [status |-> "rejected",
             message |-> << "Nama tidak sesuai. Nama yang terdaftar: ", P[pid].name >>]
       ELSE IF csid = NoSession \/ P[pid].exam_session_id # csid
       THEN [status |-> "rejected",
             message |-> << "Sesi ujian tidak aktif atau tidak sesuai." >>]
       ELSE [status |-> "registered", participant_id |-> pid, exam_session_id |-> csid]

\* the update without `participant.last_heartbeat = datetime.utcnow()`
register_persist_no_heartbeat(P, pid, ip, cname, t) ==
    [x \in DOMAIN P |->
        IF x = pid
        THEN [P[x] EXCEPT !.computer_ip = ip, !.computer_name = cname, !.is_active = TRUE]
        ELSE P[x]]

\* lines 423-431: the detached row is changed and merged back; only the four
\* assigned columns are written
register_persist(P, pid, ip, cname, t) ==
    [x \in DOMAIN P |->
        IF x = pid
        THEN [P[x] EXCEPT !.computer_ip = ip, !.computer_name = cname,
                          !.is_active = TRUE, !.last_heartbeat = t]
        ELSE P[x]]

\* a handler that refreshes the heartbeat of a roster participant before it
\* validates
register_effect_early(P, ack, pid, ip, cname, t) ==
    IF ack.status = "registered"
    THEN [P EXCEPT ![pid].computer_ip = ip, ![pid].computer_name = cname,
                   ![pid].is_active = TRUE, ![pid].last_heartbeat = t]
    ELSE IF pid \in DOMAIN P THEN [P EXCEPT ![pid].last_heartbeat = t]
    ELSE P

\* what a REGISTER persists: nothing on the three early returns
register_effect(P, ack, pid, ip, cname, t) ==
    IF ack.status = "registered" THEN register_persist(P, pid, ip, cname, t) ELSE P

\* REGISTER on the connection of handle h, up to the await of the ack's write
RecvRegister(h, rawname, ip, cname) ==
    /\ conn[h].pc = "recv"
    /\ LET pid == conn[h].pid
           ack == register_ack(participants, current_session_id, pid, rawname)
           msg == Message("register_ack", ack, pid)
       IN /\ participants' = register_effect(participants, ack, pid, ip, cname, now)
          /\ writes' = send_begin(connected_clients, writes, h, pid, msg)
          /\ conn' = [conn EXCEPT ![h].pc = IF Has(connected_clients, pid) THEN "send" ELSE "recv"]
          /\ last' = [op |-> "register", pid |-> pid, h |-> h, name |-> rawname,
                      ip |-> ip, cname |-> cname, sent |-> << msg >>,
                      pre |-> participants, csid |-> current_session_id, t |-> now]
    /\ wire' = Consume(wire, h) /\ UNCHANGED << client, inbox >>
    /\ UNCHANGED << connected_clients, op, violations, exam_sessions, permission_requests,
                    appvars, now, nmsgs, lost >>

\* the write a handler of task h awaits returns or raises; the handler then
\* returns and the task reads again
TaskWriteEnd(h, ok) ==
    /\ conn[h].pc = "send"
    /\ h \in DOMAIN writes
    /\ MayWrite(writes[h], ok)
    /\ connected_clients' = send_end(connected_clients, writes[h], ok)
    /\ writes' = WDel(writes, h)
    /\ conn' = [conn EXCEPT ![h].pc = "recv"]
    /\ last' = WriteRecord(h, writes[h], ok)
    /\ inbox' = Deliver(inbox, writes[h], ok) /\ UNCHANGED << client, wire >>
    /\ UNCHANGED << op, dbvars, appvars, now, nmsgs, lost >>

\* AdminApp._handle_heartbeat_async
RecvHeartbeat(h) ==
    /\ conn[h].pc = "recv"
    /\ participants' = update_participant_heartbeat(participants, conn[h].pid, now)
    /\ last' = [op |-> "heartbeat", pid |-> conn[h].pid, h |-> h, pre |-> participants, t |-> now]
    /\ wire' = Consume(wire, h) /\ UNCHANGED << client, inbox >>
    /\ UNCHANGED << connected_clients, conn, writes, op, violations, exam_sessions,
                    permission_requests, appvars, now, nmsgs, lost >>

\* a message whose type has no handler effect: STATUS_UPDATE (the admin
\* handler is `pass`), or a type with no handler at all ("No handler ...")
RecvIgnored(h, t) ==
    /\ conn[h].pc = "recv"
    /\ t \in MessageType \ {"register", "heartbeat", "violation_report", "permission_request"}
    /\ last' = [op |-> "ignored", pid |-> conn[h].pid, h |-> h, type |-> t]
    /\ wire' = Consume(wire, h) /\ UNCHANGED << client, inbox >>
    /\ UNCHANGED << connected_clients, conn, writes, op, dbvars, appvars, now, nmsgs, lost >>

\* loop.run_until_complete(coro) on a new loop: asyncio refuses to run a loop
\* in a thread that is already running one
run_until_complete(inRunningLoop) == IF inRunningLoop THEN "RuntimeError" ELSE "ok"

\* AdminApp._handle_violation_auto, lines 576-596: the branch is chosen on
\* participant.warning_count of the row read at line 556
escalation(P, pid, participant) ==
    IF participant.warning_count >= warnings_before_lock
    THEN [P |-> lock_participant(P, pid, TRUE),
          out |-> << Message("lock", [reason |-> "auto_escalation"], pid) >>]
    ELSE IF participant.warning_count >= warnings_before_flag
    THEN [P |-> P,
          out |-> << Message("warning", [message |-> "FLAG: Anda telah mencapai batas peringatan!",
                                         flag |-> TRUE], pid) >>]
    ELSE [P |-> P, out |-> << >>]

\* AdminApp._handle_violation_auto.  `participant` is read before the
\* increment and is not refreshed (expire_on_commit=False).  inRunningLoop:
\* the calling thread runs an event loop (always so for a message handler).
_handle_violation_auto(P, pid, inRunningLoop) ==
    IF pid \notin DOMAIN P THEN [exc |-> "none", P |-> P, out |-> << >>]
    ELSE LET participant == P[pid]
             P1 == increment_warning_count(P, pid)
             warning == Message("warning", [message |-> "Peringatan",
                                            warning_count |-> participant.warning_count], pid)
         IN IF run_until_complete(inRunningLoop) # "ok"
            THEN [exc |-> "RuntimeError", P |-> P1, out |-> << >>]
            ELSE LET e == escalation(P1, pid, participant)
                 IN [exc |-> "none", P |-> e.P, out |-> << warning >> \o e.out]

\* _handle_violation_report without the `if self.ai_proctor_mode` test
_handle_violation_report_always_auto(P, V, csid, auto, pid, vt, sev, inRunningLoop) ==
    IF vt \notin ViolationType \/ sev \notin ViolationSeverity
    THEN [exc |-> "ValueError", P |-> P, V |-> V, out |-> << >>]
    ELSE IF csid = NoSession THEN [exc |-> "none", P |-> P, V |-> V, out |-> << >>]
    ELSE LET c == create_violation(P, V, pid, csid, vt, sev)
         IN IF c.exc # "none" THEN [exc |-> c.exc, P |-> P, V |-> V, out |-> << >>]
            ELSE LET P2 == _update_integrity_score(c.P, pid)
                     a == _handle_violation_auto(P2, pid, inRunningLoop)
                 IN [exc |-> a.exc, P |-> a.P, V |-> c.V, out |-> a.out]

\* AdminApp._handle_violation_report
_handle_violation_report(P, V, csid, auto, pid, vt, sev, inRunningLoop) ==
    IF vt \notin ViolationType \/ sev \notin ViolationSeverity
    THEN [exc |-> "ValueError", P |-> P, V |-> V, out |-> << >>]
    ELSE IF csid = NoSession THEN [exc |-> "none", P |-> P, V |-> V, out |-> << >>]
    ELSE LET c == create_violation(P, V, pid, csid, vt, sev)
         IN IF c.exc # "none" THEN [exc |-> c.exc, P |-> P, V |-> V, out |-> << >>]
            ELSE LET P2 == _update_integrity_score(c.P, pid)
                 IN IF ~auto THEN [exc |-> "none", P |-> P2, V |-> c.V, out |-> << >>]
                    ELSE LET a == _handle_violation_auto(P2, pid, inRunningLoop)
                         IN [exc |-> a.exc, P |-> a.P, V |-> c.V, out |-> a.out]

\* VIOLATION_REPORT on the connection of handle h.  The wrapper
\* _handle_violation_report_async awaits the None that the (synchronous)
\* handler returns: TypeError, unless the handler has raised before.  Either
\* way the exception leaves the read loop through `except Exception`.
RecvViolationReport(h, vt, sev) ==
    /\ conn[h].pc = "recv"
    /\ Len(violations) < MaxViolations
    /\ LET pid == conn[h].pid
           r == _handle_violation_report(participants, violations, current_session_id,
                                         ai_proctor_mode, pid, vt, sev, TRUE)
       IN /\ participants' = r.P
          /\ violations' = r.V
          /\ conn' = [conn EXCEPT ![h] = [pid |-> "", pc |-> "free"]]
          /\ connected_clients' = _disconnect_client(connected_clients, pid)
          /\ last' = [op |-> "violation", pid |-> pid, h |-> h, auto |-> ai_proctor_mode,
                      csid |-> current_session_id, pre |-> participants,
                      prev |-> violations, vt |-> vt, sev |-> sev,
                      exc |-> IF r.exc = "none" THEN "TypeError" ELSE r.exc,
                      sent |-> r.out]
    /\ wire' = Closed(wire, h) /\ UNCHANGED << client, inbox >>
    /\ UNCHANGED << writes, op, exam_sessions, permission_requests, appvars, now, nmsgs, lost >>

\* datetime.isoformat and datetime.fromisoformat
isoformat(t) == << "iso", t >>
fromisoformat(x) == x[2]

\* AdminApp._handle_permission_request.  Without a current session the
\* handler does nothing.  With one: the request is created, the operator is
\* asked (reply is the button pressed; "none": the dialog, opened from the
\* server's thread, never returns), an approval is persisted, and the response
\* is built from the `request` object that create_permission_request returned
\* (it is not refreshed: expire_on_commit=False) and sent through
\* run_until_complete.
_handle_permission_request(P, R, csid, pid, duration, reply, t1, t2, inRunningLoop) ==
    IF csid = NoSession
    THEN [exc |-> "none", R |-> R, asked |-> FALSE, blocked |-> FALSE, request |-> 0, out |-> << >>]
    ELSE LET c == create_permission_request(P, R, pid, duration)
             none == [exc |-> "none", R |-> c.R, asked |-> TRUE, blocked |-> FALSE,
                      request |-> c.request.id, out |-> << >>]
         IN IF c.exc # "none"
            THEN [exc |-> c.exc, R |-> R, asked |-> FALSE, blocked |-> FALSE,
                  request |-> 0, out |-> << >>]
            ELSE IF reply = "none" THEN [none EXCEPT !.blocked = TRUE]
            ELSE IF reply = "yes"
            THEN LET a == approve_permission_request(c.R, c.request.id, t1, t2)
                 IN IF a.exc # "none" THEN [none EXCEPT !.exc = a.exc]
                    ELSE IF c.request.expires_at = NoTime
                    THEN [none EXCEPT !.exc = "AttributeError", !.R = a.R]
                    ELSE IF run_until_complete(inRunningLoop) # "ok"
                    THEN [none EXCEPT !.exc = "RuntimeError", !.R = a.R]
                    ELSE [none EXCEPT !.R = a.R,
                            !.out = << Message("permission_response",
                                               [approved |-> TRUE,
                                                expires_at |-> isoformat(c.request.expires_at),
                                                duration_minutes |-> duration], pid) >>]
            ELSE IF run_until_complete(inRunningLoop) # "ok"
            THEN [none EXCEPT !.exc = "RuntimeError"]
            ELSE [none EXCEPT !.out = << Message("permission_response",
                                                 [approved |-> FALSE], pid) >>]

\* PERMISSION_REQUEST on the connection of handle h.  The wrapper awaits the
\* coroutine, so a handler that returns lets the task read again; an
\* exception leaves the read loop through `except Exception`.
RecvPermissionRequest(h, duration, reply) ==
    /\ conn[h].pc = "recv"
    /\ Len(permission_requests) < MaxPerm
    /\ LET pid == conn[h].pid
           r == _handle_permission_request(participants, permission_requests,
                                           current_session_id, pid, duration, reply,
                                           now, now, TRUE)
       IN /\ permission_requests' = r.R
          /\ IF r.blocked
             THEN /\ conn' = [conn EXCEPT ![h].pc = "dialog"]
                  /\ wire' = Consume(wire, h)
                  /\ UNCHANGED connected_clients
             ELSE IF r.exc # "none"
             THEN /\ conn' = [conn EXCEPT ![h] = [pid |-> "", pc |-> "free"]]
                  /\ connected_clients' = _disconnect_client(connected_clients, pid)
                  /\ wire' = Closed(wire, h)
             ELSE /\ wire' = Consume(wire, h)
                  /\ UNCHANGED << conn, connected_clients >>
          /\ last' = [op |-> "permission", pid |-> pid, h |-> h, csid |-> current_session_id,
                      pre |-> permission_requests, duration |-> duration,
                      reply |-> IF r.asked THEN reply ELSE "unasked",
                      request |-> r.request, exc |-> r.exc, sent |-> r.out]
    /\ UNCHANGED << writes, op, participants, violations, exam_sessions, appvars,
                    client, inbox, now, nmsgs, lost >>

(* -------------------------- operator actions -------------------------- *)
\* _toggle_session that ends a session without writing status = 'completed'
ToggleSession_left_active ==
    /\ op = Idle
    /\ IF current_session_id = NoSession
       THEN /\ Len(exam_sessions) < MaxSessions
            /\ exam_sessions' = Append(exam_sessions, "active")
            /\ current_session_id' = Len(exam_sessions) + 1
       ELSE /\ exam_sessions' = exam_sessions
            /\ current_session_id' = NoSession
    /\ last' = [op |-> "toggle_session"]
    /\ UNCHANGED clivars
    /\ UNCHANGED << connected_clients, conn, writes, op, participants, violations,
                    permission_requests, ai_proctor_mode, now, nmsgs, lost >>

\* AdminApp._toggle_session
ToggleSession ==
    /\ op = Idle
    /\ IF current_session_id = NoSession
       THEN /\ Len(exam_sessions) < MaxSessions
            /\ exam_sessions' = Append(exam_sessions, "active")
            /\ current_session_id' = Len(exam_sessions) + 1
       ELSE /\ exam_sessions' = [exam_sessions EXCEPT ![current_session_id] = "completed"]
            /\ current_session_id' = NoSession
    /\ last' = [op |-> "toggle_session"]
    /\ UNCHANGED clivars
    /\ UNCHANGED << connected_clients, conn, writes, op, participants, violations,
                    permission_requests, ai_proctor_mode, now, nmsgs, lost >>

\* AdminApp._toggle_ai_proctor
ToggleAIProctor ==
    /\ op = Idle
    /\ ai_proctor_mode' = ~ai_proctor_mode
    /\ last' = [op |-> "toggle_ai"]
    /\ UNCHANGED clivars
    /\ UNCHANGED << connected_clients, conn, writes, op, dbvars, current_session_id,
                    now, nmsgs, lost >>

\* AdminApp._add_participant
AddParticipant(pid, name) ==
    /\ op = Idle
    /\ current_session_id # NoSession
    /\ name # << >>
    /\ pid \notin DOMAIN participants
    /\ participants' = register_participant(participants, pid, name, current_session_id, now)
    /\ last' = [op |-> "add_participant", pid |-> pid]
    /\ UNCHANGED clivars
    /\ UNCHANGED << connected_clients, conn, writes, op, violations, exam_sessions,
                    permission_requests, appvars, now, nmsgs, lost >>

\* AdminApp._lock_selected_participant (locked) and
\* _unlock_selected_participant (not locked) for the row selected in the
\* participants table: the row is written, then the message is sent from the
\* GUI thread
LockSelected(pid, locked) ==
    /\ op = Idle
    /\ nmsgs < MaxMsgs
    /\ pid \in DOMAIN participants
    /\ LET msg == IF locked
                  THEN Message("lock", [reason |-> "manual", id |-> nmsgs + 1], pid)
                  ELSE Message("unlock", [id |-> nmsgs + 1], pid)
           found == Has(connected_clients, pid)
       IN /\ participants' = lock_participant(participants, pid, locked)
          /\ writes' = send_begin(connected_clients, writes, OpThread, pid, msg)
          /\ op' = IF found THEN [kind |-> "send"] ELSE Idle
          /\ lost' = IF found THEN lost ELSE lost \cup {[id |-> nmsgs + 1, pid |-> pid]}
          /\ last' = [op |-> "lock_selected", pid |-> pid, locked |-> locked, msg |-> msg,
                      found |-> found, pre |-> participants]
    /\ nmsgs' = nmsgs + 1
    /\ UNCHANGED clivars
    /\ UNCHANGED << connected_clients, conn, violations, exam_sessions, permission_requests,
                    appvars, now >>

\* _emergency_lock that also writes is_locked for every roster row
_emergency_lock_persisted(reply) ==
    /\ op = Idle
    /\ nmsgs < MaxMsgs
    /\ reply = "yes"
    /\ LET o == [kind |-> "bcast",
                 msg |-> Message("emergency_lock", [reason |-> "emergency", id |-> nmsgs + 1], "None"),
                 exclude |-> {}, snap |-> Keys(connected_clients),
                 todo |-> << >>, res |-> << >>]
       IN BroadcastGo(o, connected_clients, Keys(connected_clients), << >>)
    /\ participants' = [q \in DOMAIN participants |-> [participants[q] EXCEPT !.is_locked = TRUE]]
    /\ nmsgs' = nmsgs + 1
    /\ UNCHANGED clivars
    /\ UNCHANGED << connected_clients, conn, violations, exam_sessions, permission_requests,
                    appvars, now, lost >>

\* AdminApp._emergency_lock: the operator confirms (reply "yes") and the
\* EMERGENCY_LOCK message is broadcast from the GUI thread; no database call
\* is made.  On "no" the handler does nothing.
_emergency_lock(reply) ==
    /\ op = Idle
    /\ nmsgs < MaxMsgs
    /\ reply = "yes"
    /\ LET o == [kind |-> "bcast",
                 msg |-> Message("emergency_lock", [reason |-> "emergency", id |-> nmsgs + 1], "None"),
                 exclude |-> {}, snap |-> Keys(connected_clients),
                 todo |-> << >>, res |-> << >>]
       IN BroadcastGo(o, connected_clients, Keys(connected_clients), << >>)
    /\ nmsgs' = nmsgs + 1
    /\ UNCHANGED clivars
    /\ UNCHANGED << connected_clients, conn, dbvars, appvars, now, lost >>

(* ----------------------- permission persistence ----------------------- *)
\* a call of DatabaseManager.approve_permission_request(id); the clock may
\* advance between its two reads
ApprovePermission(id, d) ==
    /\ now + d <= MaxTime
    /\ LET a == approve_permission_request(permission_requests, id, now, now + d)
       IN /\ permission_requests' = a.R
          /\ last' = [op |-> "approve", id |-> id, t1 |-> now, t2 |-> now + d,
                      pre |-> permission_requests, exc |-> a.exc, ret |-> a.ret]
    /\ now' = now + d
    /\ UNCHANGED clivars
    /\ UNCHANGED << connected_clients, conn, writes, op, participants, violations,
                    exam_sessions, appvars, nmsgs, lost >>

\* a call of DatabaseManager.get_active_permission(pid)
QueryActivePermission(pid) ==
    /\ LET g == get_active_permission(participants, permission_requests, pid, now)
       IN last' = [op |-> "get_active", pid |-> pid, t |-> now, exc |-> g.exc, id |-> g.id]
    /\ UNCHANGED clivars
    /\ UNCHANGED << connected_clients, conn, writes, op, dbvars, appvars, now, nmsgs, lost >>

\* datetime.utcnow() advances
Tick ==
    /\ now < MaxTime
    /\ now' = now + 1
    /\ UNCHANGED clivars
    /\ UNCHANGED << connected_clients, conn, writes, op, dbvars, appvars, nmsgs, lost, last >>

(* ---------------------- participant application ----------------------- *)
\* what the detectors report in one cycle (camera: face_absent; audio:
\* voice_activity)
DetectionKinds == { "face_absent", "voice_activity" }
\* SystemUtils.get_computer_name(): the roster name of P1, or another name
ComputerNames == { << "A", "b" >>, << "B", "a" >> }

\* GET /validate_participant/{participant_id}?name=...: the "valid" of the reply
validate_participant(P, csid, pid, name) ==
    /\ pid \in DOMAIN P
    /\ (name # << >> => lower(P[pid].name) = lower(name))
    /\ csid # NoSession
    /\ P[pid].exam_session_id = csid

\* ParticipantApp._show_registration_dialog: the typed id and name are
\* validated with the server; only then is the application built and the
\* network thread started
validate_and_accept(name) ==
    /\ client.pc = "dialog"
    /\ strip(name) # << >>
    /\ validate_participant(participants, current_session_id, ClientPid, strip(name))
    /\ client' = [client EXCEPT !.pc = "sleep", !.running = TRUE]
    /\ last' = [op |-> "validated", name |-> strip(name)]
    /\ UNCHANGED << connected_clients, conn, writes, op, dbvars, appvars, wire, inbox,
                    now, nmsgs, lost >>

\* DetectionManager.check_permission_expired
check_permission_expired(active, expires_at, t) ==
    active /\ expires_at # NoTime /\ t > expires_at

\* DetectionManager.get_all_detections: the violations it appends, in its
\* order; every one of them is also handed to violation_callback
get_all_detections(D, active, expires_at, t) ==
    LET permission_active == active /\ ~check_permission_expired(active, expires_at, t)
        skip_face_absence == permission_active
        face == IF ~skip_face_absence /\ "face_absent" \in D
                THEN << [type |-> "face_absence", severity |-> "medium"] >> ELSE << >>
        voice == IF "voice_activity" \in D
                 THEN << [type |-> "voice_activity", severity |-> "medium"] >> ELSE << >>
    IN [permission_active |-> permission_active, violations |-> face \o voice]

\* ProctoringClient.send_violation_report for the i-th violation of a cycle
Report(v, i, n) ==
    Message("violation_report",
            [violation_type |-> v[i].type, severity |-> v[i].severity, event |-> << n, i >>],
            ClientPid)

\* ProctoringClient.send_message on the client's websocket: what reaches the
\* server's read loop of that handle
Sent(w, ws, msgs) == IF conn[ws].pc = "free" THEN w ELSE [w EXCEPT ![ws] = @ \o msgs]

\* start(): `while self.running` holds (at the first pass, or after the
\* backoff sleep) and connect() is called: websockets.connect is in progress
connect_begin ==
    /\ client.pc = "sleep"
    /\ client.running
    /\ client' = [client EXCEPT !.pc = "connecting"]
    /\ last' = [op |-> "client_connect"]
    /\ UNCHANGED << connected_clients, conn, writes, op, dbvars, appvars, wire, inbox,
                    now, nmsgs, lost >>

\* ProctoringClient.connect: websockets.connect raises; start() goes on to
\* the backoff sleep
connect_failed ==
    /\ client.pc = "connecting"
    /\ client' = [client EXCEPT !.pc = "sleep", !.is_connected = FALSE]
    /\ last' = [op |-> "client_connect_failed"]
    /\ UNCHANGED << connected_clients, conn, writes, op, dbvars, appvars, wire, inbox,
                    now, nmsgs, lost >>

\* ProctoringClient.connect returns True, with the server's side of the
\* handshake
connect(h) ==
    /\ client.pc = "connecting"
    /\ AcceptConnection(h, ClientPid)
    /\ client' = [client EXCEPT !.pc = "connected", !.ws = h, !.is_connected = TRUE]
    /\ wire' = Closed(wire, h)
    /\ inbox' = << >>

\* ProctoringClient.register from start(): REGISTER with the computer name;
\* then listen() is entered
register(name, ok) ==
    /\ client.pc = "connected"
    /\ LET msg == Message("register", [name |-> name, computer_ip |-> "10.0.0.7",
                                       computer_name |-> "LAB-PC"], ClientPid)
           go == client.is_connected /\ ok
       IN /\ wire' = IF go THEN Sent(wire, client.ws, << msg >>) ELSE wire
          /\ client' = [client EXCEPT !.is_connected = go,
                                      !.pc = IF go /\ client.running THEN "listen" ELSE "sleep"]
          /\ last' = [op |-> "client_register", sent |-> go]
    /\ UNCHANGED << connected_clients, conn, writes, op, dbvars, appvars, inbox,
                    now, nmsgs, lost >>

\* ParticipantApp._handle_permission_response at time t, called by the
\* listen loop in the network thread.  QTimer.singleShot is called in that
\* thread, which runs an asyncio loop and never a Qt event loop: the timer
\* is delivered (armed) only if the binding hands it to the thread of the
\* receiver; a timer that stays with the calling thread never fires.
_handle_permission_response(c, data, t, armed) ==
    IF data.approved
    THEN [c EXCEPT !.permission_active = TRUE,
                   !.permission_expires_at = fromisoformat(data.expires_at),
                   !.timers = IF armed THEN @ \cup { t + data.duration_minutes } ELSE @]
    ELSE [c EXCEPT !.waiting = FALSE]

\* the handlers of _setup_client_handlers, up to a message box if they open one
client_handler(c, m, t, armed) ==
    CASE m.type = "permission_response" -> _handle_permission_response(c, m.data, t, armed)
      [] m.type \in { "lock", "emergency_lock" } -> [c EXCEPT !.is_locked = TRUE]
      [] m.type = "unlock" -> [c EXCEPT !.is_locked = FALSE]
      [] OTHER -> c

\* listen(): a message arrives and its handler runs.  The handlers that
\* ParticipantApp registers are plain functions, so `await handler(message)`
\* raises TypeError after the handler has run: is_connected = False and the
\* loop is left.  The handlers of REGISTER_ACK and WARNING open a message box
\* from the network thread; returns = FALSE: it never returns.
listen_recv(returns, armed) ==
    /\ client.pc = "listen"
    /\ inbox # << >>
    /\ LET m == Head(inbox)
           c1 == client_handler(client, m, now, armed)
           granted == m.type = "permission_response" /\ m.data.approved
           dialog == \/ m.type \in { "register_ack", "warning", "emergency_lock" }
                     \/ m.type = "permission_response" /\ ~m.data.approved
       IN /\ returns \/ dialog
          /\ armed \/ granted
          /\ client' = IF returns THEN [c1 EXCEPT !.is_connected = FALSE, !.pc = "sleep"]
                       ELSE [c1 EXCEPT !.pc = "handler"]
          /\ last' = [op |-> "client_recv", msg |-> m, returned |-> returns]
    /\ inbox' = Tail(inbox)
    /\ UNCHANGED << connected_clients, conn, writes, op, dbvars, appvars, wire,
                    now, nmsgs, lost >>

\* listen(): recv raises ConnectionClosed once the server's task has returned
listen_closed ==
    /\ client.pc = "listen"
    /\ inbox = << >>
    /\ conn[client.ws].pc = "free"
    /\ client' = [client EXCEPT !.is_connected = FALSE, !.pc = "sleep"]
    /\ last' = [op |-> "client_closed"]
    /\ UNCHANGED << connected_clients, conn, writes, op, dbvars, appvars, wire, inbox,
                    now, nmsgs, lost >>

\* ParticipantApp._check_detections, with the calls of _on_violation_detected
\* that get_all_detections makes: every violation is sent by the callback and
\* again by the loop over detections['violations'].  The sends run on the GUI
\* thread's loop against the websocket of the network thread: the first k
\* succeed, the next one raises (is_connected = False) and the rest return
\* False.
_check_detections(D, k) ==
    /\ client.is_connected
    /\ LET g == get_all_detections(D, client.permission_active,
                                   client.permission_expires_at, now)
           v == g.violations
           n == IF v = << >> THEN client.events ELSE client.events + 1
           callbacks == [i \in 1..Len(v) |-> Report(v, i, n)]
           attempts == callbacks \o callbacks
       IN /\ v # << >> => client.events < MaxEvents
          /\ k \in 0..Len(attempts)
          /\ wire' = Sent(wire, client.ws, SubSeq(attempts, 1, k))
          /\ client' = [client EXCEPT !.permission_active = g.permission_active,
                                      !.events = n,
                                      !.is_connected = (k = Len(attempts))]
          /\ last' = [op |-> "check_detections", events |-> v, n |-> n,
                      sent |-> SubSeq(attempts, 1, k), connected |-> (k = Len(attempts))]
    /\ UNCHANGED << connected_clients, conn, writes, op, dbvars, appvars, inbox,
                    now, nmsgs, lost >>

\* ParticipantApp._request_permission
_request_permission(ok) ==
    /\ client.is_connected
    /\ ~client.waiting
    /\ LET msg == Message("permission_request",
                          [request_type |-> "leave_seat", duration_minutes |-> 1], ClientPid)
       IN /\ wire' = IF ok THEN Sent(wire, client.ws, << msg >>) ELSE wire
          /\ client' = [client EXCEPT !.is_connected = ok, !.waiting = TRUE]
          /\ last' = [op |-> "request_permission", sent |-> ok]
    /\ UNCHANGED << connected_clients, conn, writes, op, dbvars, appvars, inbox,
                    now, nmsgs, lost >>

\* ParticipantApp._send_heartbeat (heartbeat_timer, GUI thread): sent when
\* is_connected; a send that raises sets is_connected = False
_send_heartbeat(ok) ==
    /\ client.is_connected
    /\ client.ws # 0
    /\ wire' = IF ok THEN Sent(wire, client.ws, << Message("heartbeat", << >>, ClientPid) >>)
               ELSE wire
    /\ client' = [client EXCEPT !.is_connected = ok]
    /\ last' = [op |-> "client_heartbeat", sent |-> ok, pc |-> client.pc]
    /\ UNCHANGED << connected_clients, conn, writes, op, dbvars, appvars, inbox,
                    now, nmsgs, lost >>

\* ParticipantApp._permission_expired: a single-shot timer started by
\* _handle_permission_response fires
_permission_expired ==
    /\ \E f \in client.timers :
           /\ now >= f
           /\ client' = [client EXCEPT !.permission_active = FALSE,
                                       !.permission_expires_at = NoTime,
                                       !.waiting = FALSE,
                                       !.timers = @ \ { f }]
    /\ last' = [op |-> "permission_expired", t |-> now]
    /\ UNCHANGED << connected_clients, conn, writes, op, dbvars, appvars, wire, inbox,
                    now, nmsgs, lost >>

\* an approving PERMISSION_RESPONSE is written to the client's websocket while
\* it waits for the answer to its request: approved at t0 for d minutes
PermissionResponseArrives(t0, d) ==
    /\ client.pc = "listen"
    /\ client.waiting
    /\ inbox = << >>
    /\ conn[client.ws].pc # "free"
    /\ t0 <= now
    /\ t0 + d < MaxTime
    /\ inbox' = << Message("permission_response",
                           [approved |-> TRUE, expires_at |-> isoformat(t0 + d),
                            duration_minutes |-> d], ClientPid) >>
    /\ last' = [op |-> "permission_response", t0 |-> t0, expires_at |-> t0 + d]
    /\ UNCHANGED << connected_clients, conn, writes, op, dbvars, appvars, client, wire,
                    now, nmsgs, lost >>

\* ProctoringClient.stop: running = False, then asyncio.create_task(disconnect()).
\* Called inside the client's event loop (in_loop) the task is scheduled; called
\* from the GUI thread (NetworkThread.stop in ParticipantApp.__del__) create_task
\* raises RuntimeError (no running event loop) and disconnect() never runs
stop(in_loop) ==
    /\ client.running
    /\ in_loop => client.pc \in {"connecting", "listen", "sleep"}   \* start() is at an await
    /\ client' = [client EXCEPT !.running = FALSE, !.closing = in_loop]
    /\ last' = [op |-> "client_stop", pc |-> client.pc,
                exc |-> IF in_loop THEN "" ELSE "RuntimeError"]
    /\ UNCHANGED << connected_clients, conn, writes, op, dbvars, appvars, wire, inbox,
                    now, nmsgs, lost >>

\* ProctoringClient.disconnect, the task that stop() scheduled: is_connected =
\* False; an existing websocket is closed and forgotten (a recv pending in
\* listen() raises ConnectionClosed and listen() returns); with no websocket
\* yet (a connect in progress) nothing is closed
disconnect ==
    /\ client.closing
    /\ client' = [client EXCEPT !.closing = FALSE, !.is_connected = FALSE, !.ws = 0,
                                !.pc = IF @ = "listen" THEN "sleep" ELSE @]
    /\ inbox' = << >>
    /\ last' = [op |-> "client_disconnect", ws |-> client.ws]
    /\ UNCHANGED << connected_clients, conn, writes, op, dbvars, appvars, wire,
                    now, nmsgs, lost >>

\* start(): `while self.running` is false; start() returns and the network
\* thread ends.  A disconnect() task scheduled from inside the loop is ready
\* before the sleep of start() is over, so it has run by then
start_returns ==
    /\ client.pc = "sleep"
    /\ ~client.running
    /\ ~client.closing
    /\ client' = [client EXCEPT !.pc = "stopped"]
    /\ last' = [op |-> "client_stopped"]
    /\ UNCHANGED << connected_clients, conn, writes, op, dbvars, appvars, wire, inbox,
                    now, nmsgs, lost >>

(* ------------------------ codec round trips -------------------------- *)
\* keys and values of the payloads the applications build
PayloadKeys == << "reason", "duration_minutes", "status", "message" >>
KeyNames == { PayloadKeys[i] : i \in 1..MaxKeys }
PyValues == { PyStr("manual"), PyStr(""), PyInt("10"), PyBool(TRUE), PyNone }

Payloads ==
    { PyDict([i \in DOMAIN p |-> [key |-> p[i][1], value |-> p[i][2]]]) :
        p \in { q \in UNION { [1..n -> KeyNames \X PyValues] : n \in 0..MaxKeys } :
                   \A i \in DOMAIN q, j \in DOMAIN q : q[i][1] = q[j][1] => i = j } }

\* Message(type, data, participant_id): data may be omitted (None)
Messages ==
    { PyMessage(ty, d, pid, 0) :
        ty \in MessageTypeNames, d \in Payloads \cup {PyNone}, pid \in {PyNone, PyStr("P1")} }

\* message.to_json()
Encode ==
    /\ last.op = "message"
    /\ last' = [op |-> "encoded", m |-> last.m, text |-> to_json(last.m), intact |-> TRUE]
    /\ UNCHANGED << connected_clients, conn, writes, op, dbvars, clivars, appvars, now,
                    nmsgs, lost >>

\* text that no to_json produced: the value of "type" is outside the
\* enumeration, the member "type" is missing, or the text is cut short
Garble(how) ==
    /\ last.op = "encoded" /\ last.intact
    /\ LET text == last.text
           bad == CASE how = "unknown_type" ->
                           [text EXCEPT ![4] = Tok("string", "bogus")]
                    [] how = "no_type" ->
                           << LBrace >> \o SubSeq(text, 6, Len(text))
                    [] how = "cut" -> SubSeq(text, 1, Len(text) - 1)
       IN last' = [op |-> "encoded", m |-> last.m, text |-> bad, intact |-> FALSE]
    /\ UNCHANGED << connected_clients, conn, writes, op, dbvars, clivars, appvars, now,
                    nmsgs, lost >>

\* Message.from_json(text)
Decode ==
    /\ last.op = "encoded"
    /\ last' = [op |-> "decoded", m |-> last.m, text |-> last.text, intact |-> last.intact,
                r |-> from_json(last.text, now)]
    /\ UNCHANGED << connected_clients, conn, writes, op, dbvars, clivars, appvars, now,
                    nmsgs, lost >>

(* --------------------------- specifications --------------------------- *)
\* the admin application: sessions, roster, registration and heartbeats of
\* connections that follow one another (a connection is accepted when the
\* one before it has ended)
Next ==
    \/ ToggleSession
    \/ \E pid \in RosterPIDs, name \in RosterNames : AddParticipant(pid, name)
    \/ \E h \in Handles, pid \in PIDs :
           (\A g \in Handles : conn[g].pc = "free") /\ Accept(h, pid)
    \/ \E h \in Handles, name \in NameInputs, ip \in HostIPs, cname \in HostNames :
           RecvRegister(h, name, ip, cname)
    \/ \E h \in Handles, ok \in BOOLEAN : TaskWriteEnd(h, ok)
    \/ \E h \in Handles : RecvHeartbeat(h)
    \/ \E h \in Handles : ReadFail(h)
    \/ Tick

Spec == Init /\ [][Next]_vars

\* the connection registry under concurrent connections, operator sends and
\* broadcasts
NextReg ==
    \/ \E h \in Handles, pid \in RosterPIDs : Accept(h, pid)
    \/ \E h \in Handles : ReadFail(h)
    \/ \E pid \in RosterPIDs : OpSend(pid, "lock")
    \/ \E ok \in BOOLEAN : OpSendEnd(ok)
    \/ \E exclude \in {{}, {"P1"}} : OpBroadcast("emergency_lock", exclude)
    \/ \E ok \in BOOLEAN : BroadcastStep(ok)

SpecReg == Init /\ [][NextReg]_vars

\* violation intake and escalation for a roster participant and an unknown
\* id, with the messages the server drops (unparsable ones, types without
\* effect); connections follow one another
NextEsc ==
    \/ ToggleSession
    \/ ToggleAIProctor
    \/ \E name \in RosterNames : AddParticipant("P1", name)
    \/ \E h \in Handles, pid \in {"P1", "PX"} :
           (\A g \in Handles : conn[g].pc = "free") /\ Accept(h, pid)
    \/ \E h \in Handles :
           Len(violations) < MaxReports /\ RecvViolationReport(h, "application_blocked", "medium")
    \/ \E h \in Handles : RecvMalformed(h, "bogus")
    \/ \E h \in Handles : RecvIgnored(h, "status_update")
    \/ \E h \in Handles : ReadFail(h)

SpecEsc == Init /\ [][NextEsc]_vars

\* the counters and the score of one participant over a long run of
\* violations in one exam session, with registrations, heartbeats and
\* operator locks of the connected participant in between; connections
\* follow one another
NextScore ==
    \/ exam_sessions = << >> /\ ToggleSession
    \/ ToggleAIProctor
    \/ \E name \in RosterNames : AddParticipant("P1", name)
    \/ \E h \in Handles : (\A g \in Handles : conn[g].pc = "free") /\ Accept(h, "P1")
    \/ \E h \in Handles : RecvViolationReport(h, "application_blocked", "medium")
    \/ \E h \in Handles : RecvRegister(h, << "A", "b" >>, "10.0.0.7", "LAB-PC")
    \/ \E h \in Handles, ok \in BOOLEAN : TaskWriteEnd(h, ok)
    \/ \E h \in Handles : RecvHeartbeat(h)
    \/ \E locked \in BOOLEAN : Has(connected_clients, "P1") /\ LockSelected("P1", locked)
    \/ \E ok \in BOOLEAN : OpSendEnd(ok)

SpecScore == Init /\ [][NextScore]_vars

\* the permission functions of DatabaseManager on their own: the table holds
\* requests of participant P1 as the column default stores them (PENDING), or
\* stored under another member of the enum; approved rows come from
\* approve_permission_request
StoredRows ==
    { [participant_id |-> "P1", status |-> enum_bind(Member(m)), approved_at |-> NoTime,
       expires_at |-> NoTime, duration_minutes |-> dur] :
         m \in { "PENDING", "REJECTED", "EXPIRED" }, dur \in Durations }

InitPerm ==
    /\ connected_clients = << >>
    /\ conn = [h \in Handles |-> [pid |-> "", pc |-> "free"]]
    /\ writes = << >>
    /\ op = Idle
    /\ exam_sessions = << "active" >>
    /\ current_session_id = 1
    /\ participants = register_participant(<< >>, "P1", << "A", "b" >>, 1, 0)
    /\ violations = << >>
    /\ \E n \in 1..MaxPerm : permission_requests \in [1..n -> StoredRows]
    /\ client = ClientInit
    /\ wire = [h \in Handles |-> << >>]
    /\ inbox = << >>
    /\ ai_proctor_mode = FALSE
    /\ now = 0
    /\ nmsgs = 0
    /\ lost = {}
    /\ last = Nothing

NextPerm ==
    \/ \E id \in 1..(MaxPerm + 1), d \in {0, 1} : ApprovePermission(id, d)
    \/ \E pid \in {"P1", "PX"} : QueryActivePermission(pid)
    \/ Tick

SpecPerm == InitPerm /\ [][NextPerm]_vars

\* the participant application of P1 against the admin application: the
\* server reads what the client has sent, in order
Next1(h) == Head(wire[h])
Reads(h, t) == wire[h] # << >> /\ Next1(h).type = t

NextCli ==
    \/ exam_sessions = << >> /\ ToggleSession
    \/ \E name \in RosterNames : AddParticipant(ClientPid, name)
    \/ \E name \in NameInputs : validate_and_accept(name)
    \/ connect_begin
    \/ \E h \in Handles : connect(h)
    \/ \E name \in ComputerNames, ok \in BOOLEAN : register(name, ok)
    \/ \E h \in Handles :
           /\ Reads(h, "register")
           /\ RecvRegister(h, Next1(h).data.name, Next1(h).data.computer_ip,
                           Next1(h).data.computer_name)
    \/ \E h \in Handles, ok \in BOOLEAN : TaskWriteEnd(h, ok)
    \/ \E returns \in BOOLEAN : listen_recv(returns, TRUE)
    \/ listen_closed
    \/ \E D \in SUBSET DetectionKinds, k \in 0..(2 * Cardinality(DetectionKinds)) :
           _check_detections(D, k)
    \/ \E h \in Handles :
           /\ Reads(h, "violation_report")
           /\ RecvViolationReport(h, Next1(h).data.violation_type, Next1(h).data.severity)
    \/ \E h \in Handles : client.ws # h /\ ReadFail(h)

SpecCli == Init /\ [][NextCli]_vars

\* the permission exchange between the participant application of P1 and the
\* admin application; the operator may end the session while P1 is running
NextAsk ==
    \/ ToggleSession
    \/ \E name \in RosterNames : AddParticipant(ClientPid, name)
    \/ \E name \in NameInputs : validate_and_accept(name)
    \/ connect_begin
    \/ \E h \in Handles : connect(h)
    \/ \E name \in ComputerNames, ok \in BOOLEAN : register(name, ok)
    \/ \E h \in Handles :
           /\ Reads(h, "register")
           /\ RecvRegister(h, Next1(h).data.name, Next1(h).data.computer_ip,
                           Next1(h).data.computer_name)
    \/ \E h \in Handles, ok \in BOOLEAN : TaskWriteEnd(h, ok)
    \/ \E returns \in BOOLEAN : listen_recv(returns, TRUE)
    \/ listen_closed
    \/ \E ok \in BOOLEAN : _request_permission(ok)
    \/ \E h \in Handles, reply \in { "yes", "no", "none" } :
           /\ Reads(h, "permission_request")
           /\ RecvPermissionRequest(h, Next1(h).data.duration_minutes, reply)
    \/ \E h \in Handles : client.ws # h /\ ReadFail(h)

SpecAsk == Init /\ [][NextAsk]_vars

\* the same with the scheduling the code relies on: the server's task reads a
\* request that has arrived, the operator answers a dialog that is shown, a
\* write that was started ends, and the client reads what has been delivered
SpecAskFair ==
    /\ SpecAsk
    /\ WF_vars(\E h \in Handles, reply \in { "yes", "no" } :
                   /\ Reads(h, "permission_request")
                   /\ RecvPermissionRequest(h, Next1(h).data.duration_minutes, reply))
    /\ WF_vars(\E h \in Handles : TaskWriteEnd(h, TRUE))
    /\ WF_vars(listen_recv(TRUE, TRUE))

\* the operator's locks: the lock and unlock of a selected row and the
\* emergency lock, with participants connecting and disconnecting
NextLock ==
    \/ exam_sessions = << >> /\ ToggleSession
    \/ \E pid \in RosterPIDs, name \in RosterNames : AddParticipant(pid, name)
    \/ \E h \in Handles, pid \in RosterPIDs : Accept(h, pid)
    \/ \E h \in Handles : ReadFail(h)
    \/ \E locked \in BOOLEAN : LockSelected("P1", locked)
    \/ \E ok \in BOOLEAN : OpSendEnd(ok)
    \/ \E reply \in {"yes", "no"} : _emergency_lock(reply)
    \/ \E ok \in BOOLEAN : BroadcastStep(ok)

SpecLock == Init /\ [][NextLock]_vars

\* connections that coexist, of one participant (an old and a new one during
\* a reconnect) and of several, each with its own task reading messages:
\* registrations, heartbeats and unparsable messages
NextConc ==
    \/ exam_sessions = << >> /\ ToggleSession
    \/ \E name \in RosterNames : AddParticipant("P1", name)
    \/ \E h \in Handles, pid \in RosterPIDs : Accept(h, pid)
    \/ \E h \in Handles : RecvRegister(h, << "A", "b" >>, "10.0.0.7", "LAB-PC")
    \/ \E h \in Handles, ok \in BOOLEAN : TaskWriteEnd(h, ok)
    \/ \E h \in Handles : RecvHeartbeat(h)
    \/ \E h \in Handles : RecvMalformed(h, "bogus")
    \/ \E h \in Handles : ReadFail(h)

SpecConc == Init /\ [][NextConc]_vars

\* the participant application of P1 with a peer that answers a permission
\* request with an approval: the grant, the detection cycles during it and
\* its expiry
NextGrant ==
    \/ exam_sessions = << >> /\ ToggleSession
    \/ \E name \in RosterNames : AddParticipant(ClientPid, name)
    \/ \E name \in RosterNames : validate_and_accept(name)
    \/ connect_begin
    \/ \E h \in Handles : (\A g \in 1..(h - 1) : conn[g].pc # "free") /\ connect(h)
    \/ \E name \in RosterNames : register(name, TRUE)
    \/ \E ok \in BOOLEAN : _request_permission(ok)
    \/ \E t0 \in 0..MaxTime, d \in Durations :
           now + d <= MaxTime /\ PermissionResponseArrives(t0, d)
    \/ \E armed \in BOOLEAN :
           /\ inbox # << >> /\ now + Head(inbox).data.duration_minutes <= MaxTime
           /\ listen_recv(TRUE, armed)
    \/ \E D \in SUBSET { "face_absent" } : _check_detections(D, 2 * Cardinality(D))
    \/ _permission_expired
    \/ client.running /\ Tick

SpecGrant == Init /\ [][NextGrant]_vars

\* the same with the scheduling the code relies on: the clock advances and a
\* single-shot timer that is pending and due is delivered
SpecGrantFair ==
    SpecGrant /\ WF_vars(client.running /\ Tick) /\ WF_vars(_permission_expired)

\* the reconnect loop of the participant application of P1 against the admin
\* application: connects that fail, registrations, heartbeats, lost
\* transports, and NetworkThread.stop at any point
NextLoop ==
    \/ exam_sessions = << >> /\ ToggleSession
    \/ \E name \in RosterNames : AddParticipant(ClientPid, name)
    \/ \E name \in RosterNames : validate_and_accept(name)
    \/ connect_begin
    \/ \E h \in Handles : (\A g \in 1..(h - 1) : conn[g].pc # "free") /\ connect(h)
    \/ connect_failed
    \/ \E name \in RosterNames, ok \in BOOLEAN : register(name, ok)
    \/ \E h \in Handles :
           /\ Reads(h, "register")
           /\ RecvRegister(h, Next1(h).data.name, Next1(h).data.computer_ip,
                           Next1(h).data.computer_name)
    \/ \E h \in Handles, ok \in BOOLEAN : TaskWriteEnd(h, ok)
    \/ \E h \in Handles : Reads(h, "heartbeat") /\ RecvHeartbeat(h)
    \/ \E returns \in BOOLEAN : listen_recv(returns, TRUE)
    \/ listen_closed
    \/ \E ok \in BOOLEAN :
           client.ws # 0 /\ Len(wire[client.ws]) < MaxMsgs /\ _send_heartbeat(ok)
    \/ \E h \in Handles : ReadFail(h)
    \/ \E in_loop \in BOOLEAN : stop(in_loop)
    \/ disconnect
    \/ start_returns

SpecLoop == Init /\ [][NextLoop]_vars

\* the same with the scheduling of the client's loop and of the server's
\* tasks: a step of start() or of a connection's task that can be taken is
\* taken; websockets.connect returns or raises; recv returns when a message
\* has arrived or the connection is closed
SpecLoopFair ==
    /\ SpecLoop
    /\ WF_vars(connect_begin)
    /\ WF_vars(connect_failed \/ \E h \in Handles : connect(h))
    /\ WF_vars(\E name \in RosterNames, ok \in BOOLEAN : register(name, ok))
    /\ WF_vars(\E returns \in BOOLEAN : listen_recv(returns, TRUE))
    /\ WF_vars(listen_closed)
    /\ WF_vars(start_returns)
    /\ WF_vars(\E h \in Handles :
                   /\ Reads(h, "register")
                   /\ RecvRegister(h, Next1(h).data.name, Next1(h).data.computer_ip,
                                   Next1(h).data.computer_name))
    /\ WF_vars(\E h \in Handles, ok \in BOOLEAN : TaskWriteEnd(h, ok))

\* the operator's locks against the participant application of P1: the lock
\* and unlock of the row and the emergency lock, applied while P1 is connected
\* and while it is not, with P1 connecting, registering and reconnecting; the
\* server's read fails on a connection that the client has left
NextSync ==
    \/ exam_sessions = << >> /\ ToggleSession
    \/ \E name \in RosterNames : AddParticipant(ClientPid, name)
    \/ \E name \in RosterNames : validate_and_accept(name)
    \/ connect_begin
    \/ \E h \in Handles : (\A g \in 1..(h - 1) : conn[g].pc # "free") /\ connect(h)
    \/ \E name \in RosterNames : register(name, TRUE)
    \/ \E h \in Handles :
           /\ Reads(h, "register")
           /\ RecvRegister(h, Next1(h).data.name, Next1(h).data.computer_ip,
                           Next1(h).data.computer_name)
    \/ \E h \in Handles : TaskWriteEnd(h, TRUE)
    \/ \E returns \in BOOLEAN : listen_recv(returns, TRUE)
    \/ \E locked \in BOOLEAN : LockSelected(ClientPid, locked)
    \/ \E ok \in BOOLEAN : OpSendEnd(ok)
    \/ \E reply \in {"yes", "no"} : _emergency_lock(reply)
    \/ \E ok \in BOOLEAN : BroadcastStep(ok)
    \/ \E h \in Handles : (client.ws # h \/ ~client.is_connected) /\ ReadFail(h)

SpecSync == Init /\ [][NextSync]_vars

\* the codec on every message type, payload and participant_id
InitCodec ==
    /\ connected_clients = << >>
    /\ conn = [h \in Handles |-> [pid |-> "", pc |-> "free"]]
    /\ writes = << >>
    /\ op = Idle
    /\ participants = << >>
    /\ violations = << >>
    /\ exam_sessions = << >>
    /\ permission_requests = << >>
    /\ client = ClientInit
    /\ wire = [h \in Handles |-> << >>]
    /\ inbox = << >>
    /\ current_session_id = NoSession
    /\ ai_proctor_mode = FALSE
    /\ now = 0
    /\ nmsgs = 0
    /\ lost = {}
    /\ \E m \in Messages : last = [op |-> "message", m |-> m]

NextCodec ==
    \/ Encode
    \/ \E how \in {"unknown_type", "no_type", "cut"} : Garble(how)
    \/ Decode

SpecCodec == InitCodec /\ [][NextCodec]_vars

(* ------------------------------- claims ------------------------------- *)
SeqSet(q) == { q[i] : i \in 1..Len(q) }

\* C1: when an old connection of a participant terminates (its read fails,
\* its message does not decode, or a write on it fails) while a newer
\* connection of the same participant holds the registry entry, the entry is
\* still there afterwards and still holds the newer handle.
C1_ReconnectKeepsNewHandle ==
    (last.op \in {"end", "write"} /\ last.superseded)
        => (Has(connected_clients, last.pid) /\ Get(connected_clients, last.pid) = last.newh)

\* the violation handled last raised the participant's warning count
RaisedWarning ==
    /\ last.op = "violation"
    /\ last.auto
    /\ last.pid \in DOMAIN last.pre
    /\ participants[last.pid].warning_count > last.pre[last.pid].warning_count

SentLock == \E i \in 1..Len(last.sent) :
    /\ last.sent[i].type = "lock"
    /\ last.sent[i].data.reason = "auto_escalation"

SentFlag == \E i \in 1..Len(last.sent) :
    /\ last.sent[i].type = "warning"
    /\ "flag" \in DOMAIN last.sent[i].data
    /\ last.sent[i].data.flag

\* C2: in auto-escalation mode a violation that raises warning_count to a
\* value >= warnings_before_lock sends LOCK{reason: auto_escalation}, leaves
\* the participant persisted as locked, and sends no FLAG warning.
C2_LockAtThreshold ==
    (RaisedWarning /\ participants[last.pid].warning_count >= warnings_before_lock)
        => (SentLock /\ participants[last.pid].is_locked /\ ~SentFlag)

\* C3: in auto-escalation mode a violation that raises warning_count to a
\* value in [warnings_before_flag, warnings_before_lock) sends a WARNING with
\* flag: true and leaves the lock state as it was.
C3_FlagAtThreshold ==
    (RaisedWarning /\ participants[last.pid].warning_count >= warnings_before_flag
                   /\ participants[last.pid].warning_count < warnings_before_lock)
        => (SentFlag /\ participants[last.pid].is_locked = last.pre[last.pid].is_locked)

\* C4: a finished broadcast has called send once for every id of the
\* snapshot taken at its start that is not excluded, whatever the earlier
\* sends returned; it wrote only to ids of the snapshot that are not
\* excluded and that had a handle when their turn came.
C4_Broadcast ==
    last.op = "broadcast" =>
        LET tried == { last.res[i].pid : i \in 1..Len(last.res) }
        IN /\ tried = SeqSet(last.snap) \ last.exclude
           /\ Len(last.res) = Cardinality(tried)
           /\ \A i \in 1..Len(last.res) :
                  /\ last.res[i].out = "nohandle" <=> last.res[i].h = 0
                  /\ last.res[i].out = "ok" =>
                        /\ last.res[i].pid \notin last.exclude
                        /\ last.res[i].pid \in SeqSet(last.snap)
                        /\ last.res[i].h \in Handles

\* a broadcast in which the write to one recipient failed and a later
\* recipient was still written to
C4_Witness ==
    /\ last.op = "broadcast"
    /\ \E i, j \in 1..Len(last.res) :
           i < j /\ last.res[i].out = "fail" /\ last.res[j].out = "ok"

\* C5: a send to an id with no registry entry returns False at once, starts
\* no write, leaves the registry and the tables as they were; and the
\* message is never written later: no write in flight and no completed
\* write carries it.
C5_SendWithoutHandle ==
    /\ (last.op = "send" /\ ~last.found) =>
           /\ last.returned /\ ~last.result
           /\ OpThread \notin DOMAIN writes
           /\ op = Idle
           /\ connected_clients = last.before
           /\ dbvars = last.db
    /\ \A c \in DOMAIN writes : \A l \in lost : MsgId(writes[c].msg) # l.id
    /\ last.op = "write" => \A l \in lost : MsgId(last.msg) # l.id

\* a message for a participant was dropped, the participant connected again
\* and a later message reached it
C5_Witness ==
    /\ last.op = "write" /\ last.result /\ last.caller = OpThread
    /\ \E l \in lost : l.pid = last.pid

\* C6: when the write of a send fails, the handle written to is not in the
\* registry afterwards, the entries of all other participants are as before,
\* and the caller goes on (nothing is raised to it).
C6_FailedWrite ==
    (last.op = "write" /\ ~last.result) =>
        /\ ~(Has(connected_clients, last.pid) /\ Get(connected_clients, last.pid) = last.h)
        /\ \A p \in PIDs \ {last.pid} :
               /\ Has(connected_clients, p) <=> Has(last.before, p)
               /\ Has(connected_clients, p) => Get(connected_clients, p) = Get(last.before, p)
        /\ last.caller = OpThread => op = Idle

\* a write failed while another participant was connected
C6_Witness ==
    /\ last.op = "write" /\ ~last.result
    /\ \E p \in PIDs \ {last.pid} : Has(connected_clients, p)

\* the REGISTER handled last, as the handler saw it
RegPid == last.pid
RegAck == last.sent[1]
InRoster == RegPid \in DOMAIN last.pre
NameCheck == InRoster /\ lower(last.pre[RegPid].name) = lower(strip(last.name))
SessionCheck ==
    InRoster /\ last.csid # NoSession /\ last.pre[RegPid].exam_session_id = last.csid

\* the write of the handler's one reply is the ack, addressed to the id
OneAck ==
    /\ Len(last.sent) = 1
    /\ RegAck.type = "register_ack"
    /\ RegAck.participant_id = RegPid
    /\ last.h \in DOMAIN writes => writes[last.h].msg = RegAck

\* C7: a REGISTER for an id that is not in the roster is answered with one
\* REGISTER_ACK whose status is "rejected" and which carries a message.
C7_UnknownIdRejected ==
    (last.op = "register" /\ ~InRoster) =>
        /\ OneAck
        /\ RegAck.data.status = "rejected"
        /\ RegAck.data.status # "registered"
        /\ "message" \in DOMAIN RegAck.data
        /\ RegAck.data.message # << >>

\* an unknown id registers while the roster has a participant and a session
\* is current
C7_Witness ==
    /\ last.op = "register" /\ ~InRoster
    /\ last.pre # << >> /\ last.csid # NoSession

\* a REGISTER with a roster id, a name equal to the roster name up to case,
\* and the participant's session current
ValidRegister ==
    /\ last.op = "register"
    /\ InRoster
    /\ lower(last.pre[RegPid].name) = lower(last.name)
    /\ SessionCheck

\* C8: a valid REGISTER produces exactly one REGISTER_ACK{status:
\* registered, participant_id, exam_session_id}, and the participant is then
\* persisted active, with last_heartbeat = now and the host's ip and name.
C8_ValidRegistered ==
    ValidRegister =>
        /\ OneAck
        /\ RegAck.data = [status |-> "registered", participant_id |-> RegPid,
                          exam_session_id |-> last.csid]
        /\ participants[RegPid].is_active
        /\ participants[RegPid].last_heartbeat = last.t
        /\ participants[RegPid].computer_ip = last.ip
        /\ participants[RegPid].computer_name = last.cname

\* a valid REGISTER whose name differs from the roster name in case, at a
\* time later than the stored heartbeat, from a host not yet stored
C8_Witness ==
    /\ ValidRegister
    /\ last.name # last.pre[RegPid].name
    /\ last.pre[RegPid].last_heartbeat < last.t
    /\ last.pre[RegPid].computer_ip # last.ip

\* C9: a rejected REGISTER leaves the participants table as it was.
C9_RejectedNoMutation ==
    (last.op = "register" /\ RegAck.data.status = "rejected") => participants = last.pre

\* a REGISTER of a roster participant is rejected at a time later than the
\* stored heartbeat
C9_Witness ==
    /\ last.op = "register" /\ RegAck.data.status = "rejected"
    /\ InRoster
    /\ last.pre[RegPid].last_heartbeat < last.t

\* C10: the checks answer in the order roster, name, session: an unknown id
\* gets the roster message; a known id with a wrong name gets the name
\* message, whatever the session; a known id with the right name gets the
\* session message when no session is current or it is another one.
C10_CheckOrder ==
    last.op = "register" =>
        /\ ~InRoster =>
              RegAck.data.message =
                  << "ID Peserta ", RegPid, " tidak terdaftar. Silakan hubungi pengawas." >>
        /\ (InRoster /\ ~NameCheck) =>
              /\ RegAck.data.status = "rejected"
              /\ RegAck.data.message =
                     << "Nama tidak sesuai. Nama yang terdaftar: ", last.pre[RegPid].name >>
        /\ (InRoster /\ NameCheck /\ ~SessionCheck) =>
              /\ RegAck.data.status = "rejected"
              /\ RegAck.data.message = << "Sesi ujian tidak aktif atau tidak sesuai." >>
        /\ (InRoster /\ NameCheck /\ SessionCheck) => RegAck.data.status = "registered"

\* a REGISTER that fails the name check and the session check
C10_Witness ==
    /\ last.op = "register"
    /\ InRoster /\ ~NameCheck /\ ~SessionCheck
    /\ last.csid # NoSession

\* the violation handled last got as far as the score update: a session was
\* current and the participant had a row
ScoreUpdated ==
    /\ last.op = "violation"
    /\ last.exc \in {"TypeError", "RuntimeError"}
    /\ last.csid # NoSession
    /\ last.pid \in DOMAIN last.pre

\* the counts the score update read: the violation count with the new
\* violation, the warning count before any new warning
ScoreInput == 100 - 5 * participants[last.pid].violation_count
                  - 2 * last.pre[last.pid].warning_count

\* C11: the score update stores max(0, 100 - 5*v - 2*w) for the violation
\* count v and the warning count w that it reads.
C11_ScoreFormula ==
    ScoreUpdated =>
        participants[last.pid].integrity_score = (IF ScoreInput > 0 THEN ScoreInput ELSE 0)

\* a score update whose penalties exceed the base score
C11_Witness == ScoreUpdated /\ ScoreInput < 0

ViolationsOf(V, pid) == Cardinality({ i \in 1..Len(V) : V[i].participant_id = pid })

\* C12: in every state each participant's violation_count is the number of
\* violation rows of that participant and every violation row belongs to a
\* participant; a violation creation that fails with ValueError leaves both
\* tables as they were.
C12_ViolationAtomic ==
    /\ \A p \in DOMAIN participants :
           participants[p].violation_count = ViolationsOf(violations, p)
    /\ \A i \in 1..Len(violations) : violations[i].participant_id \in DOMAIN participants
    /\ (last.op = "violation" /\ last.exc = "ValueError") =>
           (participants = last.pre /\ violations = last.prev)

\* a violation creation failed for an unknown participant while the tables
\* held rows of another participant
C12_Witness ==
    /\ last.op = "violation" /\ last.exc = "ValueError" /\ last.csid # NoSession
    /\ violations # << >>

\* C13: in every step each participant keeps its row, its integrity_score
\* stays in [0,100] and does not increase, and its warning_count and
\* violation_count do not decrease.
C13_ScoreMonotone ==
    [][ /\ \A p \in DOMAIN participants' : participants'[p].integrity_score \in 0..100
        /\ \A p \in DOMAIN participants :
               /\ p \in DOMAIN participants'
               /\ participants'[p].integrity_score <= participants[p].integrity_score
               /\ participants'[p].warning_count >= participants[p].warning_count
               /\ participants'[p].violation_count >= participants[p].violation_count ]_vars

\* a participant whose score is held at 0 by the clamp, locked by the
\* operator, with warnings and violations counted
C13_Witness ==
    \E p \in DOMAIN participants :
        /\ participants[p].integrity_score = 0
        /\ 5 * participants[p].violation_count + 2 * participants[p].warning_count > 100
        /\ participants[p].warning_count > 0
        /\ participants[p].is_locked
        /\ participants[p].computer_ip # "None"

\* a violation handled with auto-escalation off, under a current session, for
\* a participant with a row
ManualViolation ==
    /\ last.op = "violation"
    /\ ~last.auto
    /\ last.csid # NoSession
    /\ last.pid \in DOMAIN last.pre

\* C14: with auto-escalation off, a violation adds its row, adds one to
\* violation_count and recomputes the score, leaves warning_count and
\* is_locked as they were, and sends nothing to the participant.
C14_ManualMode ==
    ManualViolation =>
        LET old == last.pre[last.pid]
            new == participants[last.pid]
            raw == 100 - 5 * new.violation_count - 2 * new.warning_count
        IN /\ violations = Append(last.prev,
                                  [participant_id |-> last.pid, exam_session_id |-> last.csid,
                                   violation_type |-> last.vt, severity |-> last.sev])
           /\ new.violation_count = old.violation_count + 1
           /\ new.integrity_score = (IF raw > 0 THEN raw ELSE 0)
           /\ new.warning_count = old.warning_count
           /\ new.is_locked = old.is_locked
           /\ last.sent = << >>
           /\ \A c \in DOMAIN writes : c \in Handles => writes[c].msg.type \notin {"warning", "lock"}

\* a violation handled with auto-escalation off for a participant who had
\* warnings from an earlier period of auto-escalation
C14_Witness == ManualViolation /\ last.pre[last.pid].warning_count > 0

\* a request of the table that is stored as PENDING
StoredPending(R, id) == id \in 1..Len(R) /\ R[id].status = enum_bind(Member("PENDING"))

\* C17: approve(request_id) succeeds only when the request's status is
\* PENDING; approving a request that is already approved, or in any other
\* status but PENDING, or that does not exist, fails explicitly (it returns
\* False or raises) and leaves the table as it was, so that a second approve
\* never extends the expiry.
C17_ApproveOnlyPending ==
    last.op = "approve" =>
        /\ (last.ret => last.exc = "none" /\ StoredPending(last.pre, last.id))
        /\ (~StoredPending(last.pre, last.id) =>
                /\ ~last.ret
                /\ permission_requests = last.pre)

\* a second approve, at a later time, of a request that the first one approved
C17_Witness ==
    /\ last.op = "approve"
    /\ last.id \in 1..Len(last.pre)
    /\ last.pre[last.id].approved_at # NoTime
    /\ last.t1 > last.pre[last.id].approved_at
    /\ ~last.ret

\* the requests of pid that approve_permission_request has approved and that
\* have not expired at time t
ActiveAt(R, pid, t) ==
    { i \in 1..Len(R) : /\ R[i].participant_id = pid
                        /\ R[i].approved_at # NoTime
                        /\ t < R[i].expires_at }

\* C18: approving a PENDING request R with duration D at time T sets
\* expires_at = T + D; every later get_active_permission(participant) returns
\* R while now < T + D and returns nothing at or after T + D, and no status
\* transition is performed at expiry.  T is an instant of the call (the code
\* reads the clock twice).
C18_ActiveUntilExpiry ==
    /\ (last.op = "approve" /\ last.ret) =>
            \E T \in last.t1..last.t2 :
                permission_requests[last.id].expires_at
                    = T + permission_requests[last.id].duration_minutes
    /\ (last.op = "get_active" /\ last.pid \in DOMAIN participants) =>
            LET active == ActiveAt(permission_requests, last.pid, last.t)
            IN /\ last.exc = "none"
               /\ (active # {} => last.id \in active)
               /\ (active = {} => last.id = 0)

\* the reports of the last detection cycle that carry its i-th violation
ReportsOf(i) == { j \in 1..Len(last.sent) : last.sent[j].data.event = << last.n, i >> }

\* C15: each violation event that a detection collaborator produces on a
\* connected client is reported to the server exactly once (so that it yields
\* one Violation record and one violation_count increment, never zero and
\* never two).
C15_ReportedOnce ==
    (last.op = "check_detections" /\ last.connected) =>
        \A i \in 1..Len(last.events) : Cardinality(ReportsOf(i)) = 1

\* the operator is asked about a permission request only after
\* create_permission_request has returned
OperatorAsked == last.op = "permission" /\ last.reply # "unasked"

\* C21: a permission request received while no exam session is current is
\* rejected (no PermissionRequest row is persisted and the operator is not
\* asked, so none can be approved for it); when a session is current, the
\* request of a participant of the roster is persisted with status PENDING
\* before the operator's decision is sought.
C21_RequestPersisted ==
    (last.op = "permission" /\ last.pid \in DOMAIN participants) =>
        /\ (last.csid = NoSession =>
                /\ permission_requests = last.pre
                /\ last.reply = "unasked")
        /\ (last.csid # NoSession =>
                /\ Len(permission_requests) = Len(last.pre) + 1
                /\ permission_requests[Len(permission_requests)].participant_id = last.pid)

\* C29: a HEARTBEAT on the connection of a roster participant sets that row's
\* last_heartbeat to the current time and marks it active; its
\* violation_count, warning_count, integrity_score and is_locked, every other
\* row, the violations table and the connection registry stay as they were.
\* A HEARTBEAT on a connection whose id is not in the roster changes no row.
C29_HeartbeatFrame ==
    [][(last' # last /\ last'.op = "heartbeat") =>
         LET pid == last'.pid
         IN /\ connected_clients' = connected_clients
            /\ violations' = violations
            /\ DOMAIN participants' = DOMAIN participants
            /\ \A q \in DOMAIN participants :
                   IF q = pid
                   THEN /\ participants'[q].last_heartbeat = now
                        /\ participants'[q].is_active
                        /\ participants'[q].violation_count = participants[q].violation_count
                        /\ participants'[q].warning_count = participants[q].warning_count
                        /\ participants'[q].integrity_score = participants[q].integrity_score
                        /\ participants'[q].is_locked = participants[q].is_locked
                   ELSE participants'[q] = participants[q]]_vars

\* a heartbeat of a roster participant arrived after the clock had advanced
\* past the row's last_heartbeat
C29_Witness ==
    /\ last.op = "heartbeat"
    /\ last.pid \in DOMAIN last.pre
    /\ last.pre[last.pid].last_heartbeat # last.t
    /\ participants[last.pid].last_heartbeat = last.t

\* C30: an emergency lock is one broadcast of EMERGENCY_LOCK: when it has
\* ended, a send was made for every participant that was connected when it
\* started (and for nobody else), and no step of it changes a row of the
\* participants table, so every is_locked is what it was.
C30_EmergencyLockFrame ==
    [][(last' # last /\ last'.op \in {"broadcast", "broadcasting"}) =>
         /\ participants' = participants
         /\ (last'.op = "broadcast" =>
                /\ last'.msg.type = "emergency_lock"
                /\ Len(last'.res) = Len(last'.snap)
                /\ \A i \in 1..Len(last'.snap) : last'.res[i].pid = last'.snap[i])]_vars

\* an emergency lock was delivered to a connected participant whose row is
\* not locked
C30_Witness ==
    /\ last.op = "broadcast"
    /\ last.msg.type = "emergency_lock"
    /\ \E i \in 1..Len(last.res) :
           /\ last.res[i].out = "ok"
           /\ last.res[i].pid \in DOMAIN participants
           /\ ~participants[last.res[i].pid].is_locked
    /\ \E q \in DOMAIN participants : participants[q].is_locked

\* C25: the server never handles two messages of one participant_id at the
\* same time: while the handler of a message of an id is suspended (its
\* acknowledgement is being written), no other connection of the same id is
\* inside a handler, also when an old and a new connection of the id coexist.
C25_OneHandlerPerParticipant ==
    \A g \in Handles, h \in Handles :
        (g # h /\ conn[g].pc = "send" /\ conn[h].pid = conn[g].pid) => conn[h].pc # "send"

\* C27: a message that cannot be decoded (a type outside the enumeration,
\* malformed text) raises in the connection's task: the task ends and the
\* registry has no entry for that participant afterwards, while the entries
\* of every other participant, the tasks of all other connections, the
\* writes in flight and the database are as before.
C27_ProtocolErrorDisconnects ==
    [][(last' # last /\ last'.op = "end" /\ last'.why = "ProtocolError") =>
         LET h == last'.h
             p == last'.pid
         IN /\ conn[h].pc = "recv" /\ conn[h].pid = p
            /\ conn'[h].pc = "free"
            /\ ~Has(connected_clients', p)
            /\ \A g \in Handles \ {h} : conn'[g] = conn[g]
            /\ \A q \in PIDs \ {p} :
                   /\ Has(connected_clients', q) <=> Has(connected_clients, q)
                   /\ Has(connected_clients, q) =>
                          Get(connected_clients', q) = Get(connected_clients, q)
            /\ writes' = writes
            /\ dbvars' = dbvars]_vars

\* an unparsable message ended the connection of one participant while
\* another participant is registered and its task is reading
C27_Witness ==
    /\ last.op = "end" /\ last.why = "ProtocolError"
    /\ ~Has(connected_clients, last.pid)
    /\ \E g \in Handles :
           /\ conn[g].pc = "recv" /\ conn[g].pid # last.pid
           /\ Has(connected_clients, conn[g].pid)
           /\ Get(connected_clients, conn[g].pid) = g
    /\ participants # << >>

\* C26: decoding the encoding of a message gives a message with the same
\* type, the same data payload (the same keys in the same order with the same
\* values) and the same participant_id, for every message type, every flat
\* payload (the empty one included) and every participant_id (None included).
C26_RoundTrip ==
    (last.op = "decoded" /\ last.intact) =>
        /\ last.r.exc = "none"
        /\ last.r.m.type = last.m.type
        /\ last.r.m.data = last.m.data
        /\ last.r.m.participant_id = last.m.participant_id

\* a message with two payload entries, one of them None, and no
\* participant_id went through to_json and from_json
C26_Witness ==
    /\ last.op = "decoded" /\ last.intact
    /\ Len(last.m.data.v) = 2
    /\ \E i \in 1..2 : last.m.data.v[i].value = PyNone
    /\ last.m.participant_id = PyNone
    /\ last.r.m.data = last.m.data

\* C28: when the transport of a registered participant is lost (its
\* connection's task has ended and no other connection of the id is open),
\* the participant's persisted connection state is not active.
C28_DisconnectedAfterLoss ==
    (/\ last.op = "end"
     /\ last.pid \in DOMAIN participants
     /\ participants[last.pid].computer_ip # "None"
     /\ \A g \in Handles : conn[g].pid # last.pid)
        => ~participants[last.pid].is_active

\* C22: once an approved PERMISSION_RESPONSE has switched the client's
\* face-absence suppression on, the client by itself eventually reaches a
\* state in which the suppression is off and the permission button is
\* enabled again.
C22_SuppressionEnds ==
    client.permission_active ~> (~client.permission_active /\ ~client.waiting)

\* C23: while running is set, whenever the client has no transport
\* (is_connected is false and no connect is in progress) it eventually makes a
\* connect attempt; and the listen loop is entered only by a step that has
\* sent REGISTER on the connection just made.
C23_Reconnects ==
    /\ (client.running /\ ~client.is_connected /\ client.pc # "connecting")
           ~> (client.pc = "connecting" \/ ~client.running)
    /\ [][(client.pc # "listen" /\ client'.pc = "listen") =>
              (client.pc = "connected" /\ last'.op = "client_register" /\ last'.sent)]_vars

\* C24: once stop() has been called, the client starts no connect, sends no
\* REGISTER, and when its loop has ended its websocket is closed.
C24_StopEndsClient ==
    /\ [][(~client.running /\ client.pc # "dialog") =>
              /\ (client'.pc = "connecting" => client.pc = "connecting")
              /\ ~(last' # last /\ last'.op = "client_register" /\ last'.sent)]_vars
    /\ [](client.pc = "stopped" => (client.ws = 0 \/ conn[client.ws].pc = "free"))

\* the operator locked a participant who was already persisted as locked
RelockedByOperator ==
    /\ last.op = "lock_selected"
    /\ last.locked
    /\ last.pre[last.pid].is_locked

\* C31: locking a participant who is already locked changes no persisted
\* state: the operator's lock leaves the participants table as it was, the
\* lock of DatabaseManager and the lock step of the auto-escalation applied to
\* a locked row return the table unchanged, and a further violation of a
\* locked participant leaves it locked.
C31_RelockNoOp ==
    /\ RelockedByOperator => participants = last.pre
    /\ \A p \in DOMAIN participants :
           participants[p].is_locked =>
               /\ lock_participant(participants, p, TRUE) = participants
               /\ escalation(participants, p, participants[p]).P = participants
    /\ (last.op = "violation" /\ last.pid \in DOMAIN last.pre /\ last.pre[last.pid].is_locked)
           => participants[last.pid].is_locked

\* the operator locks again a participant whose warning count is at the lock
\* threshold of the auto-escalation
C31_Witness ==
    /\ RelockedByOperator
    /\ participants[last.pid].warning_count >= warnings_before_lock

C33_ViolationNeedsRegistration ==
    (last.op = "violation" /\ (participants # last.pre \/ violations # last.prev)) =>
        /\ last.csid # NoSession
        /\ last.pid \in DOMAIN last.pre
        /\ last.pre[last.pid].exam_session_id = last.csid
        /\ last.pre[last.pid].computer_ip # "None"

\* C34: after a VIOLATION_REPORT has been handled, the reporting participant
\* still has its entry in the registry and the task of its connection is
\* reading the next message.
C34_ReportKeepsConnection ==
    last.op = "violation" =>
        /\ Has(connected_clients, last.pid)
        /\ conn[last.h] = [pid |-> last.pid, pc |-> "recv"]

\* C35: after a violation has been handled, the participant's persisted
\* integrity_score is max(0, 100 - 5*violation_count - 2*warning_count) of
\* the persisted counts.
C35_ScoreMatchesCounts ==
    (last.op = "violation" /\ last.pid \in DOMAIN participants) =>
        LET row == participants[last.pid]
            raw == 100 - 5 * row.violation_count - 2 * row.warning_count
        IN row.integrity_score = (IF raw > 0 THEN raw ELSE 0)

\* C36: a message other than a REGISTER_ACK is written only to a connection
\* of a participant who has registered (the row carries the host that a
\* successful REGISTER stores).
C36_OnlyRegisteredReceive ==
    \A c \in DOMAIN writes :
        writes[c].msg.type # "register_ack" =>
            /\ writes[c].pid \in DOMAIN participants
            /\ participants[writes[c].pid].computer_ip # "None"

\* C37: GET /validate_participant/{id}?name=<name> answers valid: true exactly
\* when a REGISTER with the same id and name, handled in the same state, is
\* answered with status "registered".
C37_ValidateAgreesWithRegister ==
    last.op = "register" =>
        (validate_participant(last.pre, last.csid, last.pid, last.name)
             <=> RegAck.data.status = "registered")

\* C38: every REGISTER of the participant application, which has passed the
\* validation of its id and name, carries a name that the roster check
\* accepts and is answered with status "registered" (the session stays
\* current and the roster row is not changed in these behaviours).
C38_ValidatedIsRegistered ==
    last.op = "register" =>
        /\ NameCheck
        /\ RegAck.data.status = "registered"

\* a PERMISSION_RESPONSE has been handed to the transport or delivered
PermissionAnswered ==
    \/ last.op = "permission" /\ last.sent # << >>
    \/ \E c \in DOMAIN writes : writes[c].msg.type = "permission_response"
    \/ \E i \in 1..Len(inbox) : inbox[i].type = "permission_response"

\* C39: every PERMISSION_REQUEST that the server has received is eventually
\* answered with a PERMISSION_RESPONSE, also when no session is current, and
\* never with more than one.
C39_RequestAnswered ==
    /\ (last.op = "permission") ~> PermissionAnswered
    /\ [](last.op = "permission" => Len(last.sent) <= 1)

\* the acknowledgement of a successful REGISTER has just been written to the
\* connection that the client holds
AckDelivered ==
    /\ last.op = "write"
    /\ last.msg.type = "register_ack"
    /\ last.msg.data.status = "registered"
    /\ last.result
    /\ last.h = client.ws
    /\ client.is_connected

LockTypes == { "lock", "unlock", "emergency_lock" }

\* no LOCK, UNLOCK or EMERGENCY_LOCK is being written or waits to be read
NoLockInFlight ==
    /\ op = Idle
    /\ \A c \in DOMAIN writes : writes[c].msg.type \notin LockTypes
    /\ \A i \in 1..Len(inbox) : inbox[i].type \notin LockTypes

\* C40: when the participant is connected and has been acknowledged as
\* registered, and no lock message is in flight, the client's is_locked equals
\* the is_locked of the participant's row.
C40_LockInSync ==
    (AckDelivered /\ NoLockInFlight) =>
        client.is_locked = participants[ClientPid].is_locked

====
